---------------------------- MODULE Spec2Model ----------------------------
(***************************************************************************)
(* Tour store of the tourist-guide application: generateTour, the route    *)
(* optimizers (nearest neighbour heuristic, delegated AI call), the tour   *)
(* assembler and the saved-tours collection.                               *)
(*                                                                         *)
(* Geometry.  All points lie on one meridian, so the Haversine distance of *)
(* calculateDistance reduces to R * |lat1 - lat2| * PI / 180.  A latitude  *)
(* is an integer number of length units north of the equator (negative:    *)
(* south); UnitsPerKm units make one kilometre, and every distance, and    *)
(* every maxDistance, is a number of units.  The factors 0.9, 0.5 and 1.5  *)
(* of the source are applied by cross-multiplication.                      *)
(***************************************************************************)
EXTENDS Integers, Sequences, FiniteSets, TLC

VARIABLES
    sights,          \* sights store: the list handed to generateTour
    openAiApiKey,    \* settings store: the key, "" when none is configured
    currentTour,     \* <<>> for null, <<tour>> otherwise
    savedTours,      \* sequence of tours
    isGenerating,    \* busy flag
    tourDistance,    \* persisted tour distance setting
    now,             \* Date.now()
    calls,           \* generateTour invocations: position and locals of each
    completedSince,  \* history: has another invocation completed since this one began
    opt,             \* one run of optimizeTourSimple: position and locals
    storage,         \* AsyncStorage item "tour-storage": <<>> or <<the JSON value>>
    saveLog,         \* history: tour id |-> what its last saveTour was to keep
    tierRun,         \* one run of determineSightTier: position, arguments, result
    screen,          \* tour planner screen: the store values of its last render
    sightsStore,     \* sights store and settings store: allSights, lastRegion, selectedTiers
    tts              \* utils/tts: currentSound, the sounds playing, each call's position

storeVars == <<sights, openAiApiKey, currentTour, savedTours, isGenerating,
               tourDistance, now, calls, completedSince, storage, saveLog>>
otherVars == <<screen, sightsStore, tts>>
vars == <<sights, openAiApiKey, currentTour, savedTours, isGenerating,
          tourDistance, now, calls, completedSince, opt, storage, saveLog, tierRun,
          screen, sightsStore, tts>>

---------------------------------------------------------------------------
(* Bounds of the model *)

MaxCands == 9
UnitsPerKm == 2
MaxSounds == 3

(* Program constants *)

MaxStops == 8
MaxExpanded == 8
TopUp == 5
MinAiCandidates == 3
MinAiStops == 3
DefaultTourDistance == 5

---------------------------------------------------------------------------
(* Generic helpers *)

Abs(x) == IF x < 0 THEN 0 - x ELSE x

Min(a, b) == IF a <= b THEN a ELSE b

\* Array.prototype.filter is SelectSeq of the Sequences module: the subsequence,
\* in order, of the elements that satisfy the test.

\* Array.prototype.slice(0, n)
Slice(seq, n) == SubSeq(seq, 1, Min(n, Len(seq)))

\* (mutant) Math.floor in the place of Math.ceil
FloorDiv(a, b) == a \div b

\* Math.ceil(a / b)
CeilDiv(a, b) == (a + b - 1) \div b

---------------------------------------------------------------------------
(* Sights *)

\* distance?: number  --  <<>> is undefined, <<d>> is the number d
IsDefined(x) == x # <<>>

\* (a.distance || 0)
DistanceOrZero(s) == IF IsDefined(s.distance) THEN s.distance[1] ELSE 0

\* Haversine distance of two points of one meridian, in units
calculateDistance(lat1, lat2) == Abs(lat2 - lat1)

---------------------------------------------------------------------------
(* optimizeTourSimple: nearest neighbour with a distance budget *)

\* (mutant) among equally close sights the reduce keeps the later one
RECURSIVE ReduceClosestLatest(_, _, _)
ReduceClosestLatest(closest, rest, loc) ==
    IF rest = <<>> THEN closest
    ELSE LET sight == Head(rest)
             distance == calculateDistance(loc, sight.latitude)
             closestDistance == calculateDistance(loc, closest.latitude)
         IN  ReduceClosestLatest(IF distance <= closestDistance THEN sight ELSE closest,
                                 Tail(rest), loc)

\* sights.reduce((closest, sight) => d(sight) < d(closest) ? sight : closest)
RECURSIVE ReduceClosest(_, _, _)
ReduceClosest(closest, rest, loc) ==
    IF rest = <<>> THEN closest
    ELSE LET sight == Head(rest)
             distance == calculateDistance(loc, sight.latitude)
             closestDistance == calculateDistance(loc, closest.latitude)
         IN  ReduceClosest(IF distance < closestDistance THEN sight ELSE closest,
                           Tail(rest), loc)

\* (mutant) the reduce keeps the last of the sights instead of the closest
LastOf(loc, seq) == seq[Len(seq)]

ClosestTo(loc, seq) == ReduceClosest(Head(seq), Tail(seq), loc)

\* sights.filter(sight => !visited.has(sight.id))
Unvisited(cands, visited) == SelectSeq(cands, LAMBDA s : s.id \notin visited)

\* (mutant) the loop without the cap on the number of stops
WhileCondNoCap(cands, visited) ==
    Cardinality(visited) < Len(cands)

\* while (visited.size < sights.length && visited.size < 8)
WhileCond(cands, visited) ==
    /\ Cardinality(visited) < Len(cands)
    /\ Cardinality(visited) < MaxStops

\* (mutant) the budget check without the return estimate
OverBudgetNoReturn(totalDistance, distanceToNext, returnDistance, maxDistance) ==
    10 * (totalDistance + distanceToNext) > 9 * maxDistance

\* totalDistance + distanceToNext + estimatedReturnDistance > maxDistance * 0.9,
\* with estimatedReturnDistance = 0.5 * returnDistance
OverBudget(totalDistance, distanceToNext, returnDistance, maxDistance) ==
    10 * (totalDistance + distanceToNext) + 5 * returnDistance > 9 * maxDistance

RECURSIVE SimpleLoop(_, _, _, _, _, _, _)
SimpleLoop(userLocation, cands, maxDistance, route, visited, currentLocation, totalDistance) ==
    IF ~WhileCond(cands, visited) THEN route
    ELSE LET unvisited == Unvisited(cands, visited)
         IN  IF unvisited = <<>> THEN route
             ELSE LET nextSight == ClosestTo(currentLocation, unvisited)
                      distanceToNext == calculateDistance(currentLocation, nextSight.latitude)
                      returnDistance == calculateDistance(nextSight.latitude, userLocation)
                  IN  IF OverBudget(totalDistance, distanceToNext, returnDistance, maxDistance)
                      THEN route
                      ELSE SimpleLoop(userLocation, cands, maxDistance,
                                      Append(route, nextSight),
                                      visited \cup {nextSight.id},
                                      nextSight.latitude,
                                      totalDistance + distanceToNext)

optimizeTourSimple(userLocation, cands, maxDistance) ==
    IF Len(cands) <= 1 THEN cands
    ELSE LET closestSight == ClosestTo(userLocation, cands)
         IN  SimpleLoop(userLocation, cands, maxDistance, <<closestSight>>,
                        {closestSight.id}, closestSight.latitude, 0)

---------------------------------------------------------------------------
(* The store as constructed, and an optimizer run that has not begun *)

Calls == {1, 2}

IdleCall == [pc |-> "idle", userLocation |-> 0, maxDistance |-> 0,
             wizardSettings |-> <<>>, nearSights |-> <<>>, expanded |-> FALSE,
             usedAi |-> FALSE, fetches |-> 0, response |-> <<>>, matched |-> <<>>,
             route |-> <<>>, error |-> "none"]

StoreConstructed ==
    /\ currentTour = <<>>
    /\ savedTours = <<>>
    /\ isGenerating = FALSE
    /\ tourDistance = DefaultTourDistance
    /\ now = 0
    /\ calls = [i \in Calls |-> IdleCall]
    /\ completedSince = [i \in Calls |-> FALSE]
    /\ storage = <<>>
    /\ saveLog = [id \in {} |-> id]

OptIdle == [pc |-> "idle", userLocation |-> 0, sights |-> <<>>, maxDistance |-> 0,
            route |-> <<>>, visited |-> {}, currentLocation |-> 0, totalDistance |-> 0]

TierIdle == [pc |-> "idle", rating |-> <<>>, userRatingsTotal |-> <<>>, result |-> 0]

\* The tour planner screen before any press: it has rendered the constructed store,
\* so it shows the planner (no current tour) with the generate control enabled.
ScreenIdle == [isGenerating |-> FALSE, showsTour |-> FALSE]

\* The sights store and the settings store as constructed.
SightsStoreConstructed ==
    [allSights |-> <<>>, lastRegion |-> <<>>, selectedTiers |-> <<1, 2, 3>>]

\* utils/tts as loaded: no sound, nobody speaking.  A sound is a positive number,
\* 0 stands for null.
Speakers == {1, 2}
TtsIdle ==
    [currentSound |-> 0, playing |-> {}, created |-> 0,
     speak |-> [i \in Speakers |-> "idle"], stop |-> "idle"]

OthersIdle ==
    /\ screen = ScreenIdle
    /\ sightsStore = SightsStoreConstructed
    /\ tts = TtsIdle

---------------------------------------------------------------------------
(* optimizeTourSimple, statement by statement (specification SpecOpt) *)

OptLatitudes == {-3, 3, 4}
OptBudgets == {0, 10, 100}
OptOrigins == {0}

OptSight(i, lat, loc) ==
    [id |-> i, name |-> <<>>, latitude |-> lat,
     distance |-> <<calculateDistance(loc, lat)>>, tier |-> 2]

InitOpt ==
    /\ sights = <<>>
    /\ openAiApiKey = ""
    /\ StoreConstructed
    /\ tierRun = TierIdle
    /\ OthersIdle
    /\ \E n \in 0..MaxCands, loc \in OptOrigins, maxDistance \in OptBudgets :
         \E lat \in [1..n -> OptLatitudes] :
            opt = [OptIdle EXCEPT !.pc = "call", !.userLocation = loc,
                                  !.sights = [i \in 1..n |-> OptSight(i, lat[i], loc)],
                                  !.maxDistance = maxDistance,
                                  !.currentLocation = loc]

\* if (sights.length <= 1) return sights;
OptReturnInput ==
    /\ opt.pc = "call"
    /\ Len(opt.sights) <= 1
    /\ opt' = [opt EXCEPT !.pc = "done", !.route = opt.sights]
    /\ UNCHANGED <<storeVars, tierRun, otherVars>>

\* the closest sight to the user becomes the first stop
OptFirst ==
    /\ opt.pc = "call"
    /\ Len(opt.sights) > 1
    /\ LET closestSight == ClosestTo(opt.currentLocation, opt.sights)
       IN  opt' = [opt EXCEPT !.pc = "loop",
                              !.route = <<closestSight>>,
                              !.visited = {closestSight.id},
                              !.currentLocation = closestSight.latitude,
                              !.totalDistance = 0]
    /\ UNCHANGED <<storeVars, tierRun, otherVars>>

\* the sight the loop body looks at: the nearest unvisited one
OptNextSight == ClosestTo(opt.currentLocation, Unvisited(opt.sights, opt.visited))

OptOverBudget ==
    OverBudget(opt.totalDistance,
               calculateDistance(opt.currentLocation, OptNextSight.latitude),
               calculateDistance(OptNextSight.latitude, opt.userLocation),
               opt.maxDistance)

\* one iteration that pushes nextSight
OptAdd ==
    /\ opt.pc = "loop"
    /\ WhileCond(opt.sights, opt.visited)
    /\ Unvisited(opt.sights, opt.visited) # <<>>
    /\ ~OptOverBudget
    /\ opt' = [opt EXCEPT !.route = Append(opt.route, OptNextSight),
                          !.visited = opt.visited \cup {OptNextSight.id},
                          !.currentLocation = OptNextSight.latitude,
                          !.totalDistance = opt.totalDistance +
                              calculateDistance(opt.currentLocation, OptNextSight.latitude)]
    /\ UNCHANGED <<storeVars, tierRun, otherVars>>

\* one iteration that breaks: nothing unvisited, or the budget check fails
OptBreak ==
    /\ opt.pc = "loop"
    /\ WhileCond(opt.sights, opt.visited)
    /\ \/ Unvisited(opt.sights, opt.visited) = <<>>
       \/ /\ Unvisited(opt.sights, opt.visited) # <<>>
          /\ OptOverBudget
    /\ opt' = [opt EXCEPT !.pc = "done"]
    /\ UNCHANGED <<storeVars, tierRun, otherVars>>

\* the while condition is false: return route
OptExit ==
    /\ opt.pc = "loop"
    /\ ~WhileCond(opt.sights, opt.visited)
    /\ opt' = [opt EXCEPT !.pc = "done"]
    /\ UNCHANGED <<storeVars, tierRun, otherVars>>

NextOpt == OptReturnInput \/ OptFirst \/ OptAdd \/ OptBreak \/ OptExit

SpecOpt == InitOpt /\ [][NextOpt]_vars

\* The statement-by-statement run and the operator used by generateTour agree.
OptAgrees ==
    opt.pc = "done" =>
        opt.route = optimizeTourSimple(opt.userLocation, opt.sights, opt.maxDistance)

---------------------------------------------------------------------------
(* Claims about optimizeTourSimple (specification SpecOpt) *)

\* sum of the distances between consecutive stops of a route
RECURSIVE InterStopSum(_)
InterStopSum(route) ==
    IF Len(route) <= 1 THEN 0
    ELSE calculateDistance(route[1].latitude, route[2].latitude) + InterStopSum(Tail(route))

NoStopTwice(route) ==
    \A i, j \in 1..Len(route) : i # j => route[i].id # route[j].id

\* C8: whatever the candidate list and the budget, the route of optimizeTourSimple
\* never holds more than 8 stops and never holds a candidate twice.
C8_StopCap ==
    /\ Len(opt.route) <= MaxStops
    /\ NoStopTwice(opt.route)

\* more candidates than the cap, a budget that admits them all: the cap ends the loop
C8_Witness ==
    /\ opt.pc = "done"
    /\ Len(opt.sights) > MaxStops
    /\ Len(opt.route) = MaxStops

\* C9: a stop is appended behind the first one only if accumulated + d(previous, stop)
\* + 0.5 * d(stop, origin) <= 0.9 * maxDistance; an iteration that ends the loop
\* before the cap and before the candidates are used up leaves the route as it is,
\* and a nearest unvisited candidate fails that test; the returned route's
\* inter-stop distances sum to at most 0.9 * maxDistance.
C9_BudgetRule ==
    /\ [][Len(opt'.route) = Len(opt.route) + 1 /\ Len(opt.route) >= 1 =>
            LET stop == opt'.route[Len(opt'.route)]
                previous == opt.route[Len(opt.route)]
            IN  /\ stop.id \notin {opt.route[k].id : k \in 1..Len(opt.route)}
                /\ 10 * (InterStopSum(opt.route)
                          + calculateDistance(previous.latitude, stop.latitude))
                      + 5 * calculateDistance(stop.latitude, opt.userLocation)
                   <= 9 * opt.maxDistance]_vars
    /\ [][(/\ opt.pc = "loop" /\ opt'.pc = "done"
            /\ Len(opt.route) < MaxStops /\ Len(opt.route) < Len(opt.sights)) =>
            /\ opt'.route = opt.route
            /\ LET previous == opt.route[Len(opt.route)]
                   left == {k \in 1..Len(opt.sights) :
                              opt.sights[k].id \notin {opt.route[m].id : m \in 1..Len(opt.route)}}
               IN  \E k \in left :
                      /\ \A m \in left :
                            calculateDistance(previous.latitude, opt.sights[k].latitude)
                              <= calculateDistance(previous.latitude, opt.sights[m].latitude)
                      /\ 10 * (InterStopSum(opt.route)
                                + calculateDistance(previous.latitude, opt.sights[k].latitude))
                            + 5 * calculateDistance(opt.sights[k].latitude, opt.userLocation)
                         > 9 * opt.maxDistance]_vars
    /\ [](opt.pc = "done" => 10 * InterStopSum(opt.route) <= 9 * opt.maxDistance)

\* the budget, not the cap or the end of the list, ended a route of several stops
C9_Witness ==
    /\ opt.pc = "done"
    /\ Len(opt.route) >= 3
    /\ Len(opt.route) < Len(opt.sights)
    /\ Len(opt.route) < MaxStops
    /\ InterStopSum(opt.route) > 0

\* C10: the route is empty exactly when the candidate list is; otherwise its first
\* stop is a candidate nearest to the origin, whatever the budget; a list of one
\* candidate is returned as it is.
C10_FirstStop ==
    opt.pc = "done" =>
        /\ (opt.route = <<>>) <=> (opt.sights = <<>>)
        /\ opt.sights # <<>> =>
              /\ \E k \in 1..Len(opt.sights) : opt.sights[k] = opt.route[1]
              /\ \A k \in 1..Len(opt.sights) :
                    calculateDistance(opt.userLocation, opt.route[1].latitude)
                      <= calculateDistance(opt.userLocation, opt.sights[k].latitude)
        /\ Len(opt.sights) = 1 => opt.route = opt.sights

\* budget 0: the first leg alone exceeds it, and the nearest candidate is the route
C10_Witness ==
    /\ opt.pc = "done"
    /\ opt.maxDistance = 0
    /\ Len(opt.sights) >= 2
    /\ Len(opt.route) = 1
    /\ opt.route[1] # opt.sights[1]

\* the position in the candidate list of the stop at position k of the route: the
\* candidates of a run are numbered by their position
OptPositionOf(k) == opt.route[k].id

\* where the run stood when it chose stop k: the origin, or the stop before
OptFrom(k) == IF k = 1 THEN opt.userLocation ELSE opt.route[k - 1].latitude

\* C26: every stop of the route a run of optimizeTourSimple returns is, among the
\* candidates not yet in the route, one at the least distance from where the run stood (the origin
\* for the first stop, the previous stop afterwards), and among those at that least
\* distance the one that comes first in the candidate list; so each choice, and
\* with it the route, is fixed by the origin, the ordered list and the budget.
C26_FirstAmongEquals ==
    opt.pc = "done" => \A k \in 1..Len(opt.route) :
        LET before == {opt.route[m].id : m \in 1..(k - 1)}
            left == {p \in 1..Len(opt.sights) : opt.sights[p].id \notin before}
            from == OptFrom(k)
            chosen == OptPositionOf(k)
            least == calculateDistance(from, opt.route[k].latitude)
        IN  /\ chosen \in left
            /\ opt.sights[chosen] = opt.route[k]
            /\ \A p \in 1..Len(opt.sights) : opt.sights[p].id = p
            /\ \A p \in left :
                  /\ least <= calculateDistance(from, opt.sights[p].latitude)
                  /\ least = calculateDistance(from, opt.sights[p].latitude) => chosen <= p

\* a finished route whose first stop had an equally close rival later in the list
\* on the other side of the origin, and a later stop a rival at its own place
C26_Witness ==
    /\ opt.pc = "done"
    /\ Len(opt.route) >= 3
    /\ \E p \in 1..Len(opt.sights) :
          /\ p > OptPositionOf(1)
          /\ opt.sights[p].latitude = 0 - opt.route[1].latitude
    /\ \E k \in 2..Len(opt.route) : \E p \in 1..Len(opt.sights) :
          /\ p > OptPositionOf(k)
          /\ opt.sights[p].id \notin {opt.route[m].id : m \in 1..k}
          /\ opt.sights[p].latitude = opt.route[k].latitude

---------------------------------------------------------------------------
(* Names: strings as sequences of characters, so that toLowerCase, includes, *)
(* split and trim are computed and not assumed                              *)

\* String.prototype.toLowerCase, character by character
LowerChar(c) ==
    CASE c = "A" -> "a"
      [] c = "B" -> "b"
      [] c = "C" -> "c"
      [] OTHER -> c

toLowerCase(str) == [k \in 1..Len(str) |-> LowerChar(str[k])]

\* String.prototype.includes: part occurs in str as a contiguous substring
includes(str, part) ==
    \E k \in 0..(Len(str) - Len(part)) :
        \A m \in 1..Len(part) : str[k + m] = part[m]

\* String.prototype.trim (the only white space of the model is " ")
RECURSIVE trim(_)
trim(str) ==
    IF str = <<>> THEN <<>>
    ELSE IF Head(str) = " " THEN trim(Tail(str))
    ELSE IF str[Len(str)] = " " THEN trim(SubSeq(str, 1, Len(str) - 1))
    ELSE str

\* String.prototype.split(","): at least one piece, also for the empty string
RECURSIVE SplitFrom(_, _)
SplitFrom(str, piece) ==
    IF str = <<>> THEN <<piece>>
    ELSE IF Head(str) = "," THEN <<piece>> \o SplitFrom(Tail(str), <<>>)
    ELSE SplitFrom(Tail(str), Append(piece, Head(str)))

split(str) == SplitFrom(str, <<>>)

\* data.completion.split(",").map(name => name.trim())
SightNames(completion) ==
    LET pieces == split(completion)
    IN  [k \in 1..Len(pieces) |-> trim(pieces[k])]

---------------------------------------------------------------------------
(* Candidate filter of generateTour *)

\* wizardSettings.interestLevel.includes(sight.tier)
TierAccepted(sight, wizardSettings) ==
    \E k \in 1..Len(wizardSettings[1].interestLevel) :
        wizardSettings[1].interestLevel[k] = sight.tier

\* filteredSights: availableSights, filtered by tier if wizard settings are given
FilteredSights(availableSights, wizardSettings) ==
    IF wizardSettings # <<>>
    THEN SelectSeq(availableSights, LAMBDA s : TierAccepted(s, wizardSettings))
    ELSE availableSights

\* (mutant) the radius test without the test for an undefined distance
WithinRadiusUndefinedAsZero(sight, maxDistance) ==
    DistanceOrZero(sight) <= maxDistance

\* sight.distance !== undefined && sight.distance <= maxDistance
WithinRadius(sight, maxDistance) ==
    IsDefined(sight.distance) /\ sight.distance[1] <= maxDistance

\* (mutant) the second filter no wider than the first
WithinExpandedRadiusNotWider(sight, maxDistance) ==
    IsDefined(sight.distance) /\ sight.distance[1] <= maxDistance

\* sight.distance !== undefined && sight.distance <= maxDistance * 1.5
WithinExpandedRadius(sight, maxDistance) ==
    IsDefined(sight.distance) /\ 2 * sight.distance[1] <= 3 * maxDistance

\* Array.prototype.sort((a, b) => (a.distance || 0) - (b.distance || 0)): stable
RECURSIVE InsertByDistance(_, _)
InsertByDistance(sorted, s) ==
    IF sorted = <<>> THEN <<s>>
    ELSE IF DistanceOrZero(s) < DistanceOrZero(Head(sorted))
         THEN <<s>> \o sorted
         ELSE <<Head(sorted)>> \o InsertByDistance(Tail(sorted), s)

\* (mutant) the sort left out
Unsorted(seq) == seq

RECURSIVE SortByDistance(_)
SortByDistance(seq) ==
    IF seq = <<>> THEN <<>>
    ELSE InsertByDistance(SortByDistance(SubSeq(seq, 1, Len(seq) - 1)), seq[Len(seq)])

\* lines 55-85: the candidates handed to the optimizer, or the error
Candidates(availableSights, maxDistance, wizardSettings) ==
    LET filteredSights == FilteredSights(availableSights, wizardSettings)
        nearSights == SelectSeq(filteredSights, LAMBDA s : WithinRadius(s, maxDistance))
        expandedSights == SelectSeq(filteredSights,
                                    LAMBDA s : WithinExpandedRadius(s, maxDistance))
        sortedSights == SortByDistance(expandedSights)
    IN  IF nearSights # <<>>
        THEN [error |-> "none", nearSights |-> nearSights, expanded |-> FALSE]
        ELSE IF expandedSights = <<>>
        THEN [error |-> "NoSightsFound", nearSights |-> <<>>, expanded |-> TRUE]
        ELSE [error |-> "none",
              nearSights |-> nearSights \o Slice(sortedSights, MaxExpanded),
              expanded |-> TRUE]

\* the arrays of lines 55-85 as objects: `filteredSights = availableSights` shares
\* the array of the caller, Array.prototype.filter returns a new one
ArrayOf(wizardSettings) ==
    [availableSights |-> "input",
     filteredSights |-> IF wizardSettings # <<>> THEN "filtered" ELSE "input",
     nearSights |-> "near",
     expandedSights |-> "expanded"]

\* (mutant) the sort applied to filteredSights
SortedInPlaceFiltered == "filteredSights"

\* line 83: expandedSights.sort(...) sorts the array of expandedSights in place
SortedInPlace == "expandedSights"

\* the array of the caller when the filter pass is over
AvailableAfter(availableSights, maxDistance, wizardSettings) ==
    LET cands == Candidates(availableSights, maxDistance, wizardSettings)
        arrays == ArrayOf(wizardSettings)
        sortReached == cands.expanded /\ cands.error = "none"
    IN  IF sortReached /\ arrays[SortedInPlace] = arrays.availableSights
        THEN SortByDistance(availableSights)
        ELSE availableSights

---------------------------------------------------------------------------
(* optimizeTourWithAI: the delegated optimizer *)

\* the responses of the completion endpoint, as optimizeTourWithAI tells them apart
AiFailures == {"networkError", "httpError", "noCompletion"}

\* sights.find(s => s.name.toLowerCase().includes(name.toLowerCase()) ||
\*                  name.toLowerCase().includes(s.name.toLowerCase()))
NameMatches(sight, name) ==
    \/ includes(toLowerCase(sight.name), toLowerCase(name))
    \/ includes(toLowerCase(name), toLowerCase(sight.name))

RECURSIVE FindSight(_, _)
FindSight(cands, name) ==
    IF cands = <<>> THEN <<>>
    ELSE IF NameMatches(Head(cands), name) THEN <<Head(cands)>>
    ELSE FindSight(Tail(cands), name)

InRoute(route, sight) == \E k \in 1..Len(route) : route[k].id = sight.id

\* (mutant) every name that finds a sight pushes it
RECURSIVE MatchNamesKeepingRepeats(_, _, _)
MatchNamesKeepingRepeats(cands, sightNames, optimizedRoute) ==
    IF sightNames = <<>> THEN optimizedRoute
    ELSE LET found == FindSight(cands, Head(sightNames))
         IN  MatchNamesKeepingRepeats(cands, Tail(sightNames),
                        IF found # <<>>
                        THEN Append(optimizedRoute, found[1])
                        ELSE optimizedRoute)

\* sightNames.forEach: push the sight a name finds unless the route holds it
RECURSIVE MatchNames(_, _, _)
MatchNames(cands, sightNames, optimizedRoute) ==
    IF sightNames = <<>> THEN optimizedRoute
    ELSE LET found == FindSight(cands, Head(sightNames))
         IN  MatchNames(cands, Tail(sightNames),
                        IF found # <<>> /\ ~InRoute(optimizedRoute, found[1])
                        THEN Append(optimizedRoute, found[1])
                        ELSE optimizedRoute)

\* (mutant) only an empty route is topped up
ToppedUpWhenEmpty(cands, optimizedRoute) ==
    IF Len(optimizedRoute) < 1
    THEN LET remainingSights ==
                 SortByDistance(SelectSeq(cands, LAMBDA s : ~InRoute(optimizedRoute, s)))
         IN  optimizedRoute \o Slice(remainingSights, TopUp)
    ELSE optimizedRoute

\* if (optimizedRoute.length < 3): add the nearest of the remaining sights
ToppedUp(cands, optimizedRoute) ==
    IF Len(optimizedRoute) < MinAiStops
    THEN LET remainingSights ==
                 SortByDistance(SelectSeq(cands, LAMBDA s : ~InRoute(optimizedRoute, s)))
         IN  optimizedRoute \o Slice(remainingSights, TopUp)
    ELSE optimizedRoute

\* (mutant) a failed delegated call yields no route
optimizeTourWithAINoFallback(userLocation, cands, maxDistance, response) ==
    IF response.kind \in AiFailures
    THEN <<>>
    ELSE LET optimizedRoute == ToppedUp(cands, MatchNames(cands, SightNames(response.completion), <<>>))
         IN  IF Len(optimizedRoute) > 0 THEN optimizedRoute
             ELSE optimizeTourSimple(userLocation, cands, maxDistance)

\* the value the promise of optimizeTourWithAI resolves to, given the response
optimizeTourWithAI(userLocation, cands, maxDistance, response) ==
    IF response.kind \in AiFailures
    THEN optimizeTourSimple(userLocation, cands, maxDistance)
    ELSE LET optimizedRoute == ToppedUp(cands, MatchNames(cands, SightNames(response.completion), <<>>))
         IN  IF Len(optimizedRoute) > 0 THEN optimizedRoute
             ELSE optimizeTourSimple(userLocation, cands, maxDistance)

---------------------------------------------------------------------------
(* Tour assembler *)

\* (mutant) every mode at walking pace
getTransportTimeMultiplierWalking(transportMode) ==
    CASE transportMode = "walk" -> 12
      [] OTHER -> 12

getTransportTimeMultiplier(transportMode) ==
    CASE transportMode = "walk" -> 12
      [] transportMode = "taxi" -> 3
      [] transportMode = "public" -> 6
      [] transportMode = "mix" -> 8
      [] OTHER -> 12

getDetailLevelTime(detailLevel) ==
    CASE detailLevel = "brief" -> 5
      [] detailLevel = "medium" -> 15
      [] detailLevel = "expert" -> 25
      [] OTHER -> 15

\* transportMode.charAt(0).toUpperCase() + transportMode.slice(1)
Capitalized(transportMode) ==
    CASE transportMode = "walk" -> "Walk"
      [] transportMode = "taxi" -> "Taxi"
      [] transportMode = "public" -> "Public"
      [] transportMode = "mix" -> "Mix"

\* distanceToNext?: number, walkingTimeToNext?: number -- <<>> is undefined, <<n>>
\* is the number n; (x || 0) is 0 for undefined and for 0
OrZero(x) == IF IsDefined(x) THEN x[1] ELSE 0

\* new Date(): a Date object of the given time
Date(time) == [type |-> "Date", ms |-> time]

\* (mutant) stops numbered from 0
TourStopZeroBased(optimizedRoute, index, wizardSettings) ==
    LET sight == optimizedRoute[index]
    IN  [id |-> sight.id, name |-> sight.name, latitude |-> sight.latitude,
         distance |-> sight.distance, tier |-> sight.tier,
         order |-> index - 1, distanceToNext |-> <<0>>, walkingTimeToNext |-> <<0>>]

\* optimizedRoute.map((sight, index) => ({...sight, order, distanceToNext, walkingTimeToNext}))
TourStop(optimizedRoute, index, wizardSettings) ==
    LET sight == optimizedRoute[index]
        hasNext == index < Len(optimizedRoute)
        distanceToNext ==
            IF hasNext
            THEN calculateDistance(sight.latitude, optimizedRoute[index + 1].latitude)
            ELSE 0
        transportMultiplier ==
            IF wizardSettings # <<>>
            THEN getTransportTimeMultiplier(wizardSettings[1].transportMode)
            ELSE 12
        walkingTimeToNext ==
            IF hasNext THEN CeilDiv(distanceToNext * transportMultiplier, UnitsPerKm) ELSE 0
    IN  [id |-> sight.id, name |-> sight.name, latitude |-> sight.latitude,
         distance |-> sight.distance, tier |-> sight.tier,
         order |-> index, distanceToNext |-> <<distanceToNext>>,
         walkingTimeToNext |-> <<walkingTimeToNext>>]

TourStops(optimizedRoute, wizardSettings) ==
    [index \in 1..Len(optimizedRoute) |-> TourStop(optimizedRoute, index, wizardSettings)]

\* tourStops.reduce((sum, stop) => sum + (stop.distanceToNext || 0), 0)
RECURSIVE SumDistanceToNext(_)
SumDistanceToNext(tourStops) ==
    IF tourStops = <<>> THEN 0
    ELSE OrZero(Head(tourStops).distanceToNext) + SumDistanceToNext(Tail(tourStops))

\* tourStops.reduce((sum, stop) => sum + (stop.walkingTimeToNext || 0), 0)
RECURSIVE SumWalkingTimeToNext(_)
SumWalkingTimeToNext(tourStops) ==
    IF tourStops = <<>> THEN 0
    ELSE OrZero(Head(tourStops).walkingTimeToNext) + SumWalkingTimeToNext(Tail(tourStops))

\* (mutant) 15 minutes at every stop, whatever the detail level
AssembleTourFixedDwell(optimizedRoute, wizardSettings, time) ==
    LET tourStops == TourStops(optimizedRoute, wizardSettings)
    IN  [id |-> ToString(time),
         name |-> ToString(Len(tourStops)) \o "-Stop Tour",
         sights |-> tourStops,
         totalDistance |-> SumDistanceToNext(tourStops),
         estimatedDuration |-> SumWalkingTimeToNext(tourStops) + Len(tourStops) * 15,
         createdAt |-> Date(time)]

\* lines 103-146: the Tour built from the optimized route at time `time`
AssembleTour(optimizedRoute, wizardSettings, time) ==
    LET tourStops == TourStops(optimizedRoute, wizardSettings)
        totalWalkingDistance == SumDistanceToNext(tourStops)
        totalWalkingTime == SumWalkingTimeToNext(tourStops)
        sightTimePerStop ==
            IF wizardSettings # <<>>
            THEN getDetailLevelTime(wizardSettings[1].detailLevelPerSight)
            ELSE 15
        totalSightTime == Len(tourStops) * sightTimePerStop
    IN  [id |-> ToString(time),
         name |-> IF wizardSettings # <<>>
                  THEN ToString(wizardSettings[1].numberOfDays) \o "-Day "
                         \o Capitalized(wizardSettings[1].transportMode) \o " Tour"
                  ELSE ToString(Len(tourStops)) \o "-Stop Tour",
         sights |-> tourStops,
         totalDistance |-> totalWalkingDistance,
         estimatedDuration |-> totalWalkingTime + totalSightTime,
         createdAt |-> Date(time)]

---------------------------------------------------------------------------
(* Inputs of the store: sights, wizard settings, budgets, responses *)

MaxTime == 1

\* a Sight of the sights store; the user stands at latitude 0
Sight(id, name, latitude, distance, tier) ==
    [id |-> id, name |-> name, latitude |-> latitude, distance |-> distance, tier |-> tier]

Catalogue ==
    << Sight(1, <<"A">>,      1, <<1>>, 1),
       Sight(2, <<"B">>,     -2, <<2>>, 2),
       Sight(3, <<"A", "b">>, 3, <<3>>, 1),
       Sight(4, <<"C">>,     -4, <<4>>, 3),
       Sight(5, <<"c", "B">>, 5, <<5>>, 1),
       Sight(6, <<"D">>,     -6, <<6>>, 2),
       Sight(7, <<"E">>,      2, <<>>,  1) >>

\* nine sights between 5 and 6 units from the user, on both sides
FarLatitudes == <<5, -5, 6, -6, 5, -5, 6, -6, 5>>

FarRing ==
    [k \in 1..Len(FarLatitudes) |->
        Sight(10 + k, <<"F">>, FarLatitudes[k], <<Abs(FarLatitudes[k])>>, 1)]

\* the subsequence of seq at the positions in keep
RECURSIVE SubList(_, _, _)
SubList(seq, keep, k) ==
    IF k > Len(seq) THEN <<>>
    ELSE (IF k \in keep THEN <<seq[k]>> ELSE <<>>) \o SubList(seq, keep, k + 1)

GenScenarios ==
    {SubList(Catalogue, keep, 1) : keep \in SUBSET (1..Len(Catalogue))} \cup {FarRing}

StoreScenarios == {SubList(Catalogue, {1, 2, 3, 5, 7}, 1)}

WizardSettings(numberOfDays, transportMode, interestLevel, detailLevelPerSight) ==
    [numberOfDays |-> numberOfDays, transportMode |-> transportMode,
     interestLevel |-> interestLevel, detailLevelPerSight |-> detailLevelPerSight]

\* wizardSettings?: <<>> is undefined
WizardChoices ==
    { <<>>,
      <<WizardSettings(1, "walk", <<1, 2>>, "medium")>>,
      <<WizardSettings(2, "taxi", <<1>>, "brief")>>,
      <<WizardSettings(1, "public", <<1, 2, 3>>, "expert")>>,
      <<WizardSettings(3, "mix", <<3>>, "medium")>>,
      <<WizardSettings(2, "mix", <<1, 2>>, "brief")>> }

StoreWizardChoices ==
    { <<>>,
      <<WizardSettings(2, "taxi", <<1>>, "brief")>>,
      <<WizardSettings(3, "mix", <<3>>, "medium")>> }

Budgets == {0, 2, 4, 12}
StoreBudgets == {6}
Locations == {0}

\* completion strings of the endpoint
Completions ==
    { <<>>,
      <<"x">>,
      <<"B", ",", "a">>,
      <<"c", ",", " ", "A", "B", " ", ",", "b">>,
      <<"C", ",", "A", ",", "B", ",", "C">>,
      <<"F", ",", "d", ",", "y">> }

Responses ==
    {[kind |-> k, completion |-> <<>>] : k \in AiFailures}
      \cup {[kind |-> "ok", completion |-> c] : c \in Completions}

StoreResponses ==
    { [kind |-> "httpError", completion |-> <<>>],
      [kind |-> "ok", completion |-> <<"C", ",", "A", ",", "B", ",", "C">>] }

SaveNames == {"", "Trip"}
\* the names given while invocations overlap; the empty name is saved in SpecStore
ConcurrentSaveNames == {"Trip"}
TourIds == {ToString(t) : t \in 0..MaxTime} \cup {"unknown"}
TourDistances == {DefaultTourDistance, 10}

---------------------------------------------------------------------------
(* Persistence: the persist middleware writes partialize(state), as JSON,   *)
(* to the item "tour-storage" after every set, and merges the item into the *)
(* constructed state at start-up                                            *)

\* Date.prototype.toJSON: the ISO string of the date; a string stays a string
toJSON(createdAt) == [type |-> "string", ms |-> createdAt.ms]

\* JSON.parse(JSON.stringify(stop)): numbers and strings as they are, a key whose
\* value is undefined is left out and reads as undefined again
JsonStop(stop) ==
    [id |-> stop.id, name |-> stop.name, latitude |-> stop.latitude,
     distance |-> stop.distance, tier |-> stop.tier, order |-> stop.order,
     distanceToNext |-> stop.distanceToNext,
     walkingTimeToNext |-> stop.walkingTimeToNext]

\* JSON.parse(JSON.stringify(tour)): createdAt comes back as a string
JsonTour(tour) ==
    [id |-> tour.id, name |-> tour.name,
     sights |-> [k \in 1..Len(tour.sights) |-> JsonStop(tour.sights[k])],
     totalDistance |-> tour.totalDistance,
     estimatedDuration |-> tour.estimatedDuration,
     createdAt |-> toJSON(tour.createdAt)]

\* partialize: (state) => ({ savedTours, tourDistance })
partialize(tours, distance) == [savedTours |-> tours, tourDistance |-> distance]

\* the item written after a set that leaves the store with these values
Persisted(tours, distance) ==
    LET state == partialize(tours, distance)
    IN  <<[savedTours |-> [k \in 1..Len(state.savedTours) |-> JsonTour(state.savedTours[k])],
           tourDistance |-> state.tourDistance]>>

---------------------------------------------------------------------------
(* generateTour, one synchronous segment per action.  Between two awaits a  *)
(* call runs to completion: while a call is inside a segment, or its caller *)
(* has not yet resumed from the settled promise, nothing else runs.         *)

InFlight(i) == calls[i].pc \in {"started", "awaiting", "optimized", "finally"}

Quiet(i) == \A j \in Calls \ {i} : calls[j].pc \in {"idle", "awaiting"}

AllQuiet == \A j \in Calls : calls[j].pc \in {"idle", "awaiting"}

\* an invocation takes the lowest free slot: the slots are interchangeable
LowestFree(i) == \A j \in Calls : j < i => calls[j].pc # "idle"

\* (mutant) the delegated optimizer chosen whatever the key
UseAiWithoutKey(key, nearSights) == Len(nearSights) > MinAiCandidates

\* line 91: openAiApiKey && nearSights.length > 3
UseAi(key, nearSights) == key # "" /\ Len(nearSights) > MinAiCandidates

\* (mutant) generateTour entered without raising the busy flag
BeginNoFlag(i, userLocation, maxDistance, wizardSettings) ==
    /\ calls[i].pc = "idle"
    /\ LowestFree(i)
    /\ Quiet(i)
    /\ calls' = [calls EXCEPT ![i] = [IdleCall EXCEPT !.pc = "started",
                                                      !.userLocation = userLocation,
                                                      !.maxDistance = maxDistance,
                                                      !.wizardSettings = wizardSettings]]
    /\ completedSince' = [completedSince EXCEPT ![i] = FALSE]
    /\ UNCHANGED <<sights, openAiApiKey, currentTour, savedTours, isGenerating,
                   tourDistance, now, opt, storage, saveLog, tierRun, otherVars>>

\* line 48: set({ isGenerating: true })
Begin(i, userLocation, maxDistance, wizardSettings) ==
    /\ calls[i].pc = "idle"
    /\ LowestFree(i)
    /\ Quiet(i)
    /\ isGenerating' = TRUE
    /\ calls' = [calls EXCEPT ![i] = [IdleCall EXCEPT !.pc = "started",
                                                      !.userLocation = userLocation,
                                                      !.maxDistance = maxDistance,
                                                      !.wizardSettings = wizardSettings]]
    /\ completedSince' = [completedSince EXCEPT ![i] = FALSE]
    /\ storage' = Persisted(savedTours, tourDistance)
    /\ UNCHANGED <<sights, openAiApiKey, currentTour, savedTours, tourDistance, now, opt,
                   saveLog, tierRun, otherVars>>

\* (mutant) the previous tour is dropped when the optimizer is reached
FilterAndOptimizeClearing(i) ==
    /\ calls[i].pc = "started"
    /\ LET c == calls[i]
           cands == Candidates(sights, c.maxDistance, c.wizardSettings)
       IN  /\ calls' = [calls EXCEPT ![i] =
                 IF cands.error # "none"
                 THEN [c EXCEPT !.pc = "finally", !.error = cands.error,
                                !.expanded = cands.expanded]
                 ELSE IF UseAi(openAiApiKey, cands.nearSights)
                 THEN [c EXCEPT !.pc = "awaiting", !.nearSights = cands.nearSights,
                                !.expanded = cands.expanded, !.usedAi = TRUE,
                                !.fetches = c.fetches + 1]
                 ELSE [c EXCEPT !.pc = "optimized", !.nearSights = cands.nearSights,
                                !.expanded = cands.expanded,
                                !.route = optimizeTourSimple(c.userLocation, cands.nearSights,
                                                             c.maxDistance)]]
           /\ currentTour' = IF cands.error = "none" THEN <<>> ELSE currentTour
    /\ UNCHANGED <<sights, openAiApiKey, savedTours, isGenerating,
                   tourDistance, now, completedSince, opt, storage, saveLog, tierRun, otherVars>>

\* lines 55-96: filter, then either throw, or send the request of
\* optimizeTourWithAI and await, or run optimizeTourSimple
FilterAndOptimize(i) ==
    /\ calls[i].pc = "started"
    /\ LET c == calls[i]
           cands == Candidates(sights, c.maxDistance, c.wizardSettings)
       IN  /\ sights' = AvailableAfter(sights, c.maxDistance, c.wizardSettings)
           /\ calls' = [calls EXCEPT ![i] =
              IF cands.error # "none"
              THEN [c EXCEPT !.pc = "finally", !.error = cands.error,
                             !.expanded = cands.expanded]
              ELSE IF UseAi(openAiApiKey, cands.nearSights)
              THEN [c EXCEPT !.pc = "awaiting", !.nearSights = cands.nearSights,
                             !.expanded = cands.expanded, !.usedAi = TRUE,
                             !.fetches = c.fetches + 1]
              ELSE [c EXCEPT !.pc = "optimized", !.nearSights = cands.nearSights,
                             !.expanded = cands.expanded,
                             !.route = optimizeTourSimple(c.userLocation, cands.nearSights,
                                                          c.maxDistance)]]
    /\ UNCHANGED <<openAiApiKey, currentTour, savedTours, isGenerating,
                   tourDistance, now, completedSince, opt, storage, saveLog, tierRun, otherVars>>

\* lines 338-391: the endpoint answers, optimizeTourWithAI returns its route
Respond(i, response) ==
    /\ calls[i].pc = "awaiting"
    /\ Quiet(i)
    /\ LET c == calls[i]
       IN  calls' = [calls EXCEPT ![i] =
              [c EXCEPT !.pc = "optimized", !.response = <<response>>,
                        !.matched = IF response.kind \in AiFailures THEN <<>>
                                    ELSE MatchNames(c.nearSights,
                                                    SightNames(response.completion), <<>>),
                        !.route = optimizeTourWithAI(c.userLocation, c.nearSights,
                                                     c.maxDistance, response)]]
    /\ UNCHANGED <<sights, openAiApiKey, currentTour, savedTours, isGenerating,
                   tourDistance, now, completedSince, opt, storage, saveLog, tierRun, otherVars>>

\* (mutant) the published tour is also put among the saved tours
ConcludeSaving(i) ==
    /\ calls[i].pc = "optimized"
    /\ LET c == calls[i]
       IN  IF Len(c.route) = 0
           THEN /\ calls' = [calls EXCEPT ![i] = [c EXCEPT !.pc = "finally",
                                                          !.error = "CouldNotCreate"]]
                /\ UNCHANGED <<currentTour, savedTours, storage>>
           ELSE LET tour == AssembleTour(c.route, c.wizardSettings, now)
                    updatedTours ==
                        Append(SelectSeq(savedTours, LAMBDA t : t.id # tour.id), tour)
                IN  /\ calls' = [calls EXCEPT ![i] = [c EXCEPT !.pc = "finally"]]
                    /\ currentTour' = <<tour>>
                    /\ savedTours' = updatedTours
                    /\ storage' = Persisted(updatedTours, tourDistance)
    /\ UNCHANGED <<sights, openAiApiKey, isGenerating, tourDistance,
                   now, completedSince, opt, saveLog, tierRun, otherVars>>

\* lines 98-153: throw on an empty route, else assemble the tour and publish it
Conclude(i) ==
    /\ calls[i].pc = "optimized"
    /\ LET c == calls[i]
       IN  IF Len(c.route) = 0
           THEN /\ calls' = [calls EXCEPT ![i] = [c EXCEPT !.pc = "finally",
                                                          !.error = "CouldNotCreate"]]
                /\ UNCHANGED <<currentTour, storage>>
           ELSE /\ calls' = [calls EXCEPT ![i] = [c EXCEPT !.pc = "finally"]]
                /\ currentTour' = <<AssembleTour(c.route, c.wizardSettings, now)>>
                /\ storage' = Persisted(savedTours, tourDistance)
    /\ UNCHANGED <<sights, openAiApiKey, savedTours, isGenerating, tourDistance,
                   now, completedSince, opt, saveLog, tierRun, otherVars>>

\* (mutant) the flag is cleared on success only, not in a finally block
FinallyOnSuccessOnly(i) ==
    /\ calls[i].pc = "finally"
    /\ isGenerating' = IF calls[i].error = "none" THEN FALSE ELSE isGenerating
    /\ calls' = [calls EXCEPT ![i].pc =
                    IF calls[i].error = "none" THEN "resolved" ELSE "rejected"]
    /\ completedSince' = [j \in Calls |->
                            IF j # i /\ InFlight(j) THEN TRUE ELSE completedSince[j]]
    /\ storage' = Persisted(savedTours, tourDistance)
    /\ UNCHANGED <<sights, openAiApiKey, currentTour, savedTours, tourDistance, now, opt,
                   saveLog, tierRun, otherVars>>

\* lines 154-156: set({ isGenerating: false }); the promise settles
Finally(i) ==
    /\ calls[i].pc = "finally"
    /\ isGenerating' = FALSE
    /\ calls' = [calls EXCEPT ![i].pc =
                    IF calls[i].error = "none" THEN "resolved" ELSE "rejected"]
    /\ completedSince' = [j \in Calls |->
                            IF j # i /\ InFlight(j) THEN TRUE ELSE completedSince[j]]
    /\ storage' = Persisted(savedTours, tourDistance)
    /\ UNCHANGED <<sights, openAiApiKey, currentTour, savedTours, tourDistance, now, opt,
                   saveLog, tierRun, otherVars>>

\* the caller resumes from `await generateTour(...)`: nothing, or the alert
Observe(i) ==
    /\ calls[i].pc \in {"resolved", "rejected"}
    /\ calls' = [calls EXCEPT ![i] = IdleCall]
    /\ completedSince' = [completedSince EXCEPT ![i] = FALSE]
    /\ UNCHANGED <<sights, openAiApiKey, currentTour, savedTours, isGenerating,
                   tourDistance, now, opt, storage, saveLog, tierRun, otherVars>>

---------------------------------------------------------------------------
(* The other operations of the tour store, the settings and the clock *)

\* setTourDistance
setTourDistance(distance) ==
    /\ AllQuiet
    /\ tourDistance' = distance
    /\ storage' = Persisted(savedTours, distance)
    /\ UNCHANGED <<sights, openAiApiKey, currentTour, savedTours, isGenerating, now,
                   calls, completedSince, opt, saveLog, tierRun, otherVars>>

\* clearTour
clearTour ==
    /\ AllQuiet
    /\ currentTour' = <<>>
    /\ storage' = Persisted(savedTours, tourDistance)
    /\ UNCHANGED <<sights, openAiApiKey, savedTours, isGenerating, tourDistance, now,
                   calls, completedSince, opt, saveLog, tierRun, otherVars>>

\* savedTours.findIndex(tour => tour.id === id): 0 when there is none
RECURSIVE FindIndexFrom(_, _, _)
FindIndexFrom(tours, id, k) ==
    IF k > Len(tours) THEN 0
    ELSE IF tours[k].id = id THEN k
    ELSE FindIndexFrom(tours, id, k + 1)

findIndex(tours, id) == FindIndexFrom(tours, id, 1)

\* history: what a saveTour(name) of tour is to keep, by the contract of saveTour:
\* the given name, or the tour's own for an empty one, and the tour's content
Saved(tour, name) ==
    [name |-> IF name = "" THEN tour.name ELSE name,
     sights |-> tour.sights,
     totalDistance |-> tour.totalDistance,
     estimatedDuration |-> tour.estimatedDuration]

\* (mutant) saveTour that always appends
saveTourAppending(name) ==
    /\ AllQuiet
    /\ IF currentTour = <<>>
       THEN UNCHANGED <<savedTours, storage, saveLog>>
       ELSE LET tourToSave == [currentTour[1] EXCEPT
                                  !.name = IF name # "" THEN name ELSE currentTour[1].name]
                updatedTours == Append(savedTours, tourToSave)
            IN  /\ savedTours' = updatedTours
                /\ storage' = Persisted(updatedTours, tourDistance)
                /\ saveLog' = [id \in DOMAIN saveLog \cup {tourToSave.id} |->
                                  IF id = tourToSave.id
                                  THEN Saved(currentTour[1], name)
                                  ELSE saveLog[id]]
    /\ UNCHANGED <<sights, openAiApiKey, currentTour, isGenerating, tourDistance, now,
                   calls, completedSince, opt, tierRun, otherVars>>

\* saveTour
saveTour(name) ==
    /\ AllQuiet
    /\ IF currentTour = <<>>
       THEN UNCHANGED <<savedTours, storage, saveLog>>
       ELSE LET tourToSave == [currentTour[1] EXCEPT
                                  !.name = IF name # "" THEN name ELSE currentTour[1].name]
                existingIndex == findIndex(savedTours, tourToSave.id)
                updatedTours == IF existingIndex >= 1
                                THEN [savedTours EXCEPT ![existingIndex] = tourToSave]
                                ELSE Append(savedTours, tourToSave)
            IN  /\ savedTours' = updatedTours
                /\ storage' = Persisted(updatedTours, tourDistance)
                /\ saveLog' = [id \in DOMAIN saveLog \cup {tourToSave.id} |->
                                  IF id = tourToSave.id
                                  THEN Saved(currentTour[1], name)
                                  ELSE saveLog[id]]
    /\ UNCHANGED <<sights, openAiApiKey, currentTour, isGenerating, tourDistance, now,
                   calls, completedSince, opt, tierRun, otherVars>>

\* (mutant) loadTour that takes the first saved tour when the id is known
loadTourFirst(tourId) ==
    /\ AllQuiet
    /\ LET index == findIndex(savedTours, tourId)
       IN  IF index >= 1
           THEN /\ currentTour' = <<savedTours[1]>>
                /\ storage' = Persisted(savedTours, tourDistance)
           ELSE UNCHANGED <<currentTour, storage>>
    /\ UNCHANGED <<sights, openAiApiKey, savedTours, isGenerating, tourDistance, now,
                   calls, completedSince, opt, saveLog, tierRun, otherVars>>

\* loadTour
loadTour(tourId) ==
    /\ AllQuiet
    /\ LET index == findIndex(savedTours, tourId)
       IN  IF index >= 1
           THEN /\ currentTour' = <<savedTours[index]>>
                /\ storage' = Persisted(savedTours, tourDistance)
           ELSE UNCHANGED <<currentTour, storage>>
    /\ UNCHANGED <<sights, openAiApiKey, savedTours, isGenerating, tourDistance, now,
                   calls, completedSince, opt, saveLog, tierRun, otherVars>>

\* (mutant) deleteTour that also clears the current tour when it has the id
deleteTourAndCurrent(tourId) ==
    /\ AllQuiet
    /\ LET updatedTours == SelectSeq(savedTours, LAMBDA tour : tour.id # tourId)
       IN  /\ savedTours' = updatedTours
           /\ storage' = Persisted(updatedTours, tourDistance)
    /\ currentTour' = IF currentTour # <<>> /\ currentTour[1].id = tourId
                      THEN <<>> ELSE currentTour
    /\ saveLog' = [id \in DOMAIN saveLog \ {tourId} |-> saveLog[id]]
    /\ UNCHANGED <<sights, openAiApiKey, isGenerating, tourDistance, now,
                   calls, completedSince, opt, tierRun, otherVars>>

\* deleteTour
deleteTour(tourId) ==
    /\ AllQuiet
    /\ LET updatedTours == SelectSeq(savedTours, LAMBDA tour : tour.id # tourId)
       IN  /\ savedTours' = updatedTours
           /\ storage' = Persisted(updatedTours, tourDistance)
    /\ saveLog' = [id \in DOMAIN saveLog \ {tourId} |-> saveLog[id]]
    /\ UNCHANGED <<sights, openAiApiKey, currentTour, isGenerating, tourDistance, now,
                   calls, completedSince, opt, tierRun, otherVars>>

\* settings store: setOpenAiApiKey
setOpenAiApiKey(key) ==
    /\ AllQuiet
    /\ openAiApiKey' = key
    /\ UNCHANGED <<sights, currentTour, savedTours, isGenerating, tourDistance, now,
                   calls, completedSince, opt, storage, saveLog, tierRun, otherVars>>

\* some tour carries the present time as its id
TimeInUse ==
    \/ currentTour # <<>> /\ currentTour[1].id = ToString(now)
    \/ \E k \in 1..Len(savedTours) : savedTours[k].id = ToString(now)

\* time passes; the clock is read for tour ids only, so it is advanced only
\* past a value that is in use
Tick ==
    /\ AllQuiet
    /\ now < MaxTime
    /\ TimeInUse
    /\ now' = now + 1
    /\ UNCHANGED <<sights, openAiApiKey, currentTour, savedTours, isGenerating,
                   tourDistance, calls, completedSince, opt, storage, saveLog,
                   tierRun, otherVars>>

ApiKeys == {"", "sk-key"}

---------------------------------------------------------------------------
(* Specification Spec: the tour store under concurrent invocations *)

Init ==
    /\ sights \in StoreScenarios
    /\ openAiApiKey = ""
    /\ StoreConstructed
    /\ opt = OptIdle
    /\ tierRun = TierIdle
    /\ OthersIdle

Next ==
    \/ \E i \in Calls :
          \/ \E userLocation \in Locations, maxDistance \in StoreBudgets,
                wizardSettings \in StoreWizardChoices :
                Begin(i, userLocation, maxDistance, wizardSettings)
          \/ FilterAndOptimize(i)
          \/ \E response \in StoreResponses : Respond(i, response)
          \/ Conclude(i)
          \/ Finally(i)
          \/ Observe(i)
    \/ \E distance \in TourDistances : setTourDistance(distance)
    \/ clearTour
    \/ \E name \in ConcurrentSaveNames : saveTour(name)
    \/ \E tourId \in TourIds : loadTour(tourId)
    \/ \E tourId \in TourIds : deleteTour(tourId)
    \/ \E key \in ApiKeys : setOpenAiApiKey(key)
    \/ Tick

Spec == Init /\ [][Next]_vars

---------------------------------------------------------------------------
(* Specification SpecGen: one generateTour call at a time, on every input *)

InitGen ==
    /\ sights \in GenScenarios
    /\ openAiApiKey \in ApiKeys
    /\ StoreConstructed
    /\ opt = OptIdle
    /\ tierRun = TierIdle
    /\ OthersIdle

NextGen ==
    \/ \E userLocation \in Locations, maxDistance \in Budgets,
          wizardSettings \in WizardChoices :
          Begin(1, userLocation, maxDistance, wizardSettings)
    \/ FilterAndOptimize(1)
    \/ \E response \in Responses : Respond(1, response)
    \/ Conclude(1)
    \/ Finally(1)
    \/ Observe(1)

SpecGen == InitGen /\ [][NextGen]_vars

---------------------------------------------------------------------------
(* Specification SpecStore: the store across process restarts, one          *)
(* generateTour call at a time, with a key configured                       *)

\* the process ends, at any point, and the application starts again: the store
\* is constructed (lines 38-41) and the persisted item, if any, is merged into it
Restart ==
    /\ currentTour' = <<>>
    /\ isGenerating' = FALSE
    /\ savedTours' = IF storage # <<>> THEN storage[1].savedTours ELSE <<>>
    /\ tourDistance' = IF storage # <<>> THEN storage[1].tourDistance ELSE DefaultTourDistance
    /\ calls' = [i \in Calls |-> IdleCall]
    /\ completedSince' = [i \in Calls |-> FALSE]
    /\ UNCHANGED <<sights, openAiApiKey, now, opt, storage, saveLog, tierRun, otherVars>>

InitStore ==
    /\ sights \in StoreScenarios
    /\ openAiApiKey = "sk-key"
    /\ StoreConstructed
    /\ opt = OptIdle
    /\ tierRun = TierIdle
    /\ OthersIdle

NextStore ==
    \/ \E userLocation \in Locations, maxDistance \in StoreBudgets,
          wizardSettings \in StoreWizardChoices :
          Begin(1, userLocation, maxDistance, wizardSettings)
    \/ FilterAndOptimize(1)
    \/ \E response \in StoreResponses : Respond(1, response)
    \/ Conclude(1)
    \/ Finally(1)
    \/ Observe(1)
    \/ \E distance \in TourDistances : setTourDistance(distance)
    \/ clearTour
    \/ \E name \in SaveNames : saveTour(name)
    \/ \E tourId \in TourIds : loadTour(tourId)
    \/ \E tourId \in TourIds : deleteTour(tourId)
    \/ Tick
    \/ Restart

SpecStore == InitStore /\ [][NextStore]_vars

---------------------------------------------------------------------------
(* determineSightTier of the sights store (specification SpecTier).         *)
(* A rating is a number of tenths of a star, 43 for 4.3; an optional        *)
(* argument is <<>> when it is undefined                                    *)

MaxRating == 50

TopRating == 43
TopReviews == 500
NicheRating == 40
NicheReviews == 50

\* !x for x?: number -- true for undefined and for 0
Falsy(x) == x = <<>> \/ x[1] = 0

\* (mutant) missing data classified as niche
determineSightTierMissingIsNiche(rating, userRatingsTotal) ==
    IF Falsy(rating) \/ Falsy(userRatingsTotal) THEN 3
    ELSE IF rating[1] >= TopRating /\ userRatingsTotal[1] >= TopReviews THEN 1
    ELSE IF rating[1] < NicheRating \/ userRatingsTotal[1] < NicheReviews THEN 3
    ELSE 2

determineSightTier(rating, userRatingsTotal) ==
    IF Falsy(rating) \/ Falsy(userRatingsTotal) THEN 2
    ELSE IF rating[1] >= TopRating /\ userRatingsTotal[1] >= TopReviews THEN 1
    ELSE IF rating[1] < NicheRating \/ userRatingsTotal[1] < NicheReviews THEN 3
    ELSE 2

Ratings == {<<>>} \cup {<<r>> : r \in 0..MaxRating}

ReviewCounts == {<<>>} \cup {<<n>> : n \in {0, 1, 49, 50, 51, 499, 500, 501, 1000}}

InitTier ==
    /\ sights = <<>>
    /\ openAiApiKey = ""
    /\ StoreConstructed
    /\ opt = OptIdle
    /\ OthersIdle
    /\ \E rating \in Ratings, userRatingsTotal \in ReviewCounts :
          tierRun = [TierIdle EXCEPT !.pc = "call", !.rating = rating,
                                     !.userRatingsTotal = userRatingsTotal]

TierReturn ==
    /\ tierRun.pc = "call"
    /\ tierRun' = [tierRun EXCEPT !.pc = "done",
                       !.result = determineSightTier(tierRun.rating, tierRun.userRatingsTotal)]
    /\ UNCHANGED <<storeVars, opt, otherVars>>

NextTier == TierReturn

SpecTier == InitTier /\ [][NextTier]_vars

\* C18 as stated: for a present rating, 0 included, and a present review count, 0
\* included, the tier is 1 for rating >= 4.3 and reviews >= 500, else 3 for
\* rating < 4.0 or reviews < 50, else 2.
C18_TierOfPresentData ==
    (tierRun.pc = "done" /\ tierRun.rating # <<>> /\ tierRun.userRatingsTotal # <<>>) =>
        LET r == tierRun.rating[1]
            n == tierRun.userRatingsTotal[1]
        IN  tierRun.result = IF r >= TopRating /\ n >= TopReviews THEN 1
                             ELSE IF r < NicheRating \/ n < NicheReviews THEN 3
                             ELSE 2

\* C19: with the rating missing or the review count missing the tier is 2, whatever
\* the other argument; every result is one of 1, 2, 3.
C19_MissingIsRegular ==
    tierRun.pc = "done" =>
        /\ tierRun.result \in {1, 2, 3}
        /\ (tierRun.rating = <<>> \/ tierRun.userRatingsTotal = <<>>) => tierRun.result = 2

\* a low rating with the review count missing: tier 2, not 3
C19_Witness ==
    /\ tierRun.pc = "done"
    /\ tierRun.userRatingsTotal = <<>>
    /\ tierRun.rating # <<>> /\ tierRun.rating[1] < NicheRating /\ tierRun.rating[1] > 0
    /\ tierRun.result = 2

---------------------------------------------------------------------------
(* Claims about generateTour and the busy flag (specification Spec) *)

\* C1: when an invocation has returned or thrown, on whatever path, and its caller
\* has not yet resumed, isGenerating is false.
C1_FlagClearedAtExit ==
    \A i \in Calls : calls[i].pc \in {"resolved", "rejected"} => isGenerating = FALSE

\* an invocation rejected with the no-sights error, observed by its caller next
C1_Witness ==
    \E i \in Calls : calls[i].pc = "rejected" /\ calls[i].error = "NoSightsFound"

\* C2 as stated: whenever some invocation is in flight, isGenerating is true, also
\* when invocations overlap.
C2_FlagWhileAnyInFlight ==
    \A i \in Calls : InFlight(i) => isGenerating = TRUE

\* C2 amended: an invocation in flight sees isGenerating true for as long as no
\* other invocation has completed since it began.
C2_FlagUntilFirstCompletion ==
    \A i \in Calls : InFlight(i) /\ ~completedSince[i] => isGenerating = TRUE

\* two invocations await the endpoint at once, the flag still set for both
C2_Witness ==
    /\ \A i \in Calls : calls[i].pc = "awaiting" /\ ~completedSince[i]
    /\ isGenerating = TRUE

\* the stops of a tour are the sights of route, in order, numbered from 1
StopsFollow(tour, route) ==
    /\ Len(tour.sights) = Len(route)
    /\ \A k \in 1..Len(route) :
          /\ tour.sights[k].id = route[k].id
          /\ tour.sights[k].latitude = route[k].latitude
          /\ tour.sights[k].order = k
    /\ tour.totalDistance = InterStopSum(route)

\* C3: a step of an invocation never changes savedTours, and changes currentTour
\* only when it leaves the optimizer with a non-empty route; that step publishes
\* the whole tour of the route.  A successful invocation has published.
C3_PublishedOnceAtEnd ==
    /\ [][\A i \in Calls : calls[i].pc # calls'[i].pc =>
            /\ savedTours' = savedTours
            /\ IF calls[i].pc = "optimized" /\ calls[i].route # <<>>
               THEN /\ currentTour' # <<>>
                    /\ StopsFollow(currentTour'[1], calls[i].route)
                    /\ calls'[i].pc = "finally" /\ calls'[i].error = "none"
               ELSE currentTour' = currentTour]_vars
    /\ [](\A i \in Calls :
            (calls[i].pc \in {"finally", "resolved"} /\ calls[i].error = "none") =>
                currentTour # <<>> /\ StopsFollow(currentTour[1], calls[i].route))

\* a tour published after the await, with tours saved before
C3_Witness ==
    \E i \in Calls :
        /\ calls[i].pc = "resolved"
        /\ calls[i].usedAi
        /\ savedTours # <<>>
        /\ currentTour[1].id # savedTours[1].id

---------------------------------------------------------------------------
(* Claims about the candidates, the routes and the published tour           *)
(* (specification SpecGen)                                                  *)

\* a sight that counts for call c: accepted tier, distance known and within
\* 1.5 times the budget
IsCandidate(sight, c) ==
    /\ \/ c.wizardSettings = <<>>
       \/ \E k \in 1..Len(c.wizardSettings[1].interestLevel) :
             c.wizardSettings[1].interestLevel[k] = sight.tier
    /\ sight.distance # <<>>
    /\ 2 * sight.distance[1] <= 3 * c.maxDistance

CandidateIndices(c) == {k \in 1..Len(sights) : IsCandidate(sights[k], c)}

\* C4: with no candidate among the available sights the call throws the no-sights
\* error and none of its steps touches currentTour; sights of undefined distance
\* are no candidates; a published tour never has zero stops.
C4_NoCandidateRejects ==
    /\ [](\A i \in Calls :
            (calls[i].pc \notin {"idle", "started"} /\ CandidateIndices(calls[i]) = {}) =>
                /\ calls[i].error = "NoSightsFound"
                /\ calls[i].pc \in {"finally", "rejected"})
    /\ [][\A i \in Calls :
            (calls[i].pc \notin {"idle"} /\ calls[i].pc # calls'[i].pc
               /\ CandidateIndices(calls[i]) = {}) => currentTour' = currentTour]_vars
    /\ [](currentTour # <<>> => Len(currentTour[1].sights) >= 1)

\* rejected although a sight in an accepted tier is there: its distance is undefined
C4_Witness ==
    \E i \in Calls :
        /\ calls[i].pc = "rejected"
        /\ calls[i].error = "NoSightsFound"
        /\ calls[i].maxDistance > 0
        /\ \E k \in 1..Len(sights) :
              /\ sights[k].distance = <<>>
              /\ calls[i].wizardSettings # <<>>
              /\ TierAccepted(sights[k], calls[i].wizardSettings)

\* C5 as stated: the total distance of a published tour is within the budget of
\* the call that published it.
C5_TotalWithinBudget ==
    \A i \in Calls :
        (calls[i].pc \in {"finally", "resolved"} /\ calls[i].error = "none") =>
            currentTour[1].totalDistance <= calls[i].maxDistance

\* the route of the heuristic alone for the inputs of call c
HeuristicRoute(c) ==
    optimizeTourSimple(c.userLocation,
                       Candidates(sights, c.maxDistance, c.wizardSettings).nearSights,
                       c.maxDistance)

\* C6: after a failed delegated call the invocation does not throw, and the route
\* and the published stops, total distance and duration are those of the
\* heuristic alone on the same inputs.
C6_FallbackIsHeuristic ==
    \A i \in Calls :
        (/\ calls[i].usedAi
         /\ calls[i].response # <<>>
         /\ calls[i].response[1].kind \in AiFailures) =>
            /\ calls[i].error = "none"
            /\ calls[i].pc \in {"optimized", "finally", "resolved"}
            /\ calls[i].route = HeuristicRoute(calls[i])
            /\ calls[i].route # <<>>
            /\ calls[i].pc \in {"finally", "resolved"} =>
                 LET heuristic == AssembleTour(HeuristicRoute(calls[i]),
                                               calls[i].wizardSettings, now)
                 IN  /\ currentTour # <<>>
                     /\ currentTour[1].sights = heuristic.sights
                     /\ currentTour[1].totalDistance = heuristic.totalDistance
                     /\ currentTour[1].estimatedDuration = heuristic.estimatedDuration

\* a tour of several stops published after a network error of the endpoint
C6_Witness ==
    \E i \in Calls :
        /\ calls[i].pc = "resolved"
        /\ calls[i].usedAi
        /\ calls[i].response[1].kind = "networkError"
        /\ Len(currentTour[1].sights) >= 2

\* seq holds the Min(n, size of pool) sights of pool nearest to the user, in
\* ascending order of distance
ClosestAscending(ids, distances, pool, n) ==
    /\ Len(ids) = Min(n, Cardinality(pool))
    /\ \A k \in 1..Len(ids) : \E p \in pool : sights[p].id = ids[k]
    /\ \A k, m \in 1..Len(ids) : k # m => ids[k] # ids[m]
    /\ \A k, m \in 1..Len(ids) : k < m => distances[k] <= distances[m]
    /\ \A p \in pool :
          (\A k \in 1..Len(ids) : ids[k] # sights[p].id) =>
              \A k \in 1..Len(distances) : distances[k] <= sights[p].distance[1]

NearIndices(c) ==
    {k \in CandidateIndices(c) : sights[k].distance[1] <= c.maxDistance}

\* C7 as stated: after the expanded retry the published stops are the min(8, k)
\* closest candidates, in ascending order of distance.
C7_ExpandedStopsAreClosest ==
    \A i \in Calls :
        (/\ calls[i].pc \in {"finally", "resolved"}
         /\ calls[i].error = "none"
         /\ NearIndices(calls[i]) = {}) =>
            ClosestAscending([k \in 1..Len(currentTour[1].sights) |-> currentTour[1].sights[k].id],
                             [k \in 1..Len(currentTour[1].sights) |-> currentTour[1].sights[k].distance[1]],
                             CandidateIndices(calls[i]), MaxExpanded)

\* C7 amended: after the expanded retry the candidates handed to the optimizer
\* are the min(8, k) closest, in ascending order of distance, and the published
\* stops are stops chosen among them by the optimizer: at least one, none twice.
C7_ExpandedCandidatesAreClosest ==
    \A i \in Calls :
        (/\ calls[i].pc \in {"awaiting", "optimized", "finally", "resolved"}
         /\ calls[i].error = "none"
         /\ NearIndices(calls[i]) = {}) =>
            /\ calls[i].expanded
            /\ ClosestAscending([k \in 1..Len(calls[i].nearSights) |-> calls[i].nearSights[k].id],
                                [k \in 1..Len(calls[i].nearSights) |-> calls[i].nearSights[k].distance[1]],
                                CandidateIndices(calls[i]), MaxExpanded)
            /\ calls[i].pc \in {"finally", "resolved"} =>
                 /\ Len(currentTour[1].sights) >= 1
                 /\ NoStopTwice(currentTour[1].sights)
                 /\ \A k \in 1..Len(currentTour[1].sights) :
                       \E m \in 1..Len(calls[i].nearSights) :
                          calls[i].nearSights[m].id = currentTour[1].sights[k].id

\* more than 8 candidates in the expanded radius, 8 handed on, fewer published
C7_Witness ==
    \E i \in Calls :
        /\ calls[i].pc = "resolved"
        /\ calls[i].expanded
        /\ Cardinality(CandidateIndices(calls[i])) > MaxExpanded
        /\ Len(calls[i].nearSights) = MaxExpanded
        /\ Len(currentTour[1].sights) < MaxExpanded

---------------------------------------------------------------------------
(* Claims about the delegated call, the assembled stops and the input list  *)
(* (specification SpecGen)                                                  *)

\* the number of candidates of call c after filtering, the expanded retry included
CandidateCount(c) ==
    IF NearIndices(c) # {} THEN Cardinality(NearIndices(c))
    ELSE Min(MaxExpanded, Cardinality(CandidateIndices(c)))

\* C11: an invocation sends at most one request to the endpoint, and only with a
\* non-empty key and more than 3 candidates after filtering; with no key, or with
\* 3 candidates or fewer, it sends none and its route is that of optimizeTourSimple.
C11_DelegatedAtMostOnce ==
    \A i \in Calls :
        /\ calls[i].fetches <= 1
        /\ calls[i].fetches = 1 =>
              /\ openAiApiKey # ""
              /\ CandidateCount(calls[i]) > 3
        /\ (/\ calls[i].pc \in {"awaiting", "optimized", "finally", "resolved", "rejected"}
            /\ (openAiApiKey = "" \/ CandidateCount(calls[i]) <= 3)) =>
              /\ calls[i].fetches = 0
              /\ calls[i].pc # "awaiting"
              /\ calls[i].route = HeuristicRoute(calls[i])

\* a key is configured, exactly 3 candidates: no request, a tour published
C11_Witness ==
    \E i \in Calls :
        /\ calls[i].pc = "resolved"
        /\ openAiApiKey # ""
        /\ CandidateCount(calls[i]) = 3
        /\ calls[i].fetches = 0
        /\ Len(currentTour[1].sights) >= 2

---------------------------------------------------------------------------
(* Claims about the current tour and the saved tours (specification         *)
(* SpecStore)                                                               *)

\* the tours of the store: the current one, if any, and the saved ones
StoreTours ==
    {currentTour[k] : k \in 1..Len(currentTour)} \cup {savedTours[k] : k \in 1..Len(savedTours)}

\* the tours of the store after the step
StoreToursNext ==
    {currentTour'[k] : k \in 1..Len(currentTour')}
        \cup {savedTours'[k] : k \in 1..Len(savedTours')}

\* C12: in the current tour and in every saved tour the stop at position k (from 1)
\* has order k, so the orders of N stops are 1..N without gap or repeat.
C12_OrderIsPosition ==
    \A tour \in StoreTours :
        \A k \in 1..Len(tour.sights) : tour.sights[k].order = k

\* a tour of several stops, saved, brought back by a restart and loaded
C12_Witness ==
    /\ currentTour # <<>>
    /\ currentTour[1].createdAt.type = "string"
    /\ Len(currentTour[1].sights) >= 3
    /\ Len(savedTours) >= 2

RECURSIVE SumTo(_, _)
SumTo(f, n) == IF n = 0 THEN 0 ELSE f[n] + SumTo(f, n - 1)

\* the legs of the tour before its final stop, and the travel times of its stops
LegsBeforeFinal(tour) ==
    SumTo([k \in 1..Len(tour.sights) |-> tour.sights[k].distanceToNext[1]],
          Len(tour.sights) - 1)

TravelTimes(tour) ==
    SumTo([k \in 1..Len(tour.sights) |->
              IF tour.sights[k].walkingTimeToNext = <<>> THEN 0
              ELSE tour.sights[k].walkingTimeToNext[1]],
          Len(tour.sights))

\* minutes at a stop for the wizard settings of a call
DwellMinutes(wizardSettings) ==
    IF wizardSettings = <<>> THEN 15
    ELSE CASE wizardSettings[1].detailLevelPerSight = "brief" -> 5
           [] wizardSettings[1].detailLevelPerSight = "medium" -> 15
           [] wizardSettings[1].detailLevelPerSight = "expert" -> 25

\* C13: every tour of the store has totalDistance equal to the sum of distanceToNext
\* over its non-final stops and estimatedDuration equal to the sum of
\* walkingTimeToNext plus stop count times a dwell time; the tour a call publishes
\* has the dwell time of the call's detail level (15 without wizard settings); a
\* step that is no step of a call leaves every tour with stops, totalDistance and
\* estimatedDuration that belonged together before.
C13_AggregatesFollowStops ==
    /\ [](\A tour \in StoreTours :
            /\ tour.totalDistance = LegsBeforeFinal(tour)
            /\ \E dwell \in {5, 15, 25} :
                  tour.estimatedDuration = TravelTimes(tour) + Len(tour.sights) * dwell)
    /\ [][\A i \in Calls :
            (calls[i].pc = "optimized" /\ calls'[i].pc = "finally"
               /\ calls'[i].error = "none") =>
                /\ currentTour' # <<>>
                /\ currentTour'[1].estimatedDuration =
                      TravelTimes(currentTour'[1])
                        + Len(calls[i].route) * DwellMinutes(calls[i].wizardSettings)]_vars
    /\ [][calls' = calls =>
            \A after \in StoreToursNext : \E before \in StoreTours :
                /\ after.sights = before.sights
                /\ after.totalDistance = before.totalDistance
                /\ after.estimatedDuration = before.estimatedDuration]_vars

\* a tour generated with the brief detail level, saved under a name, with another
\* tour current
C13_Witness ==
    /\ savedTours # <<>>
    /\ savedTours[1].name = "Trip"
    /\ Len(savedTours[1].sights) >= 2
    /\ savedTours[1].estimatedDuration = TravelTimes(savedTours[1]) + Len(savedTours[1].sights) * 5
    /\ currentTour # <<>>
    /\ currentTour[1].estimatedDuration # savedTours[1].estimatedDuration

---------------------------------------------------------------------------
(* Claims about the stops of an assembled tour (specification SpecGen) *)

\* minutes per kilometre of the transport mode of a call
MinutesPerKm(wizardSettings) ==
    IF wizardSettings = <<>> THEN 12
    ELSE getTransportTimeMultiplier(wizardSettings[1].transportMode)

\* every stop before the final one carries the straight-line distance to the stop
\* after it, and the travel time: the least whole number of minutes that covers
\* the distance at the pace of the transport mode
LegsOfNonFinalStops(stops, wizardSettings) ==
    \A k \in 1..(Len(stops) - 1) :
        LET d == Abs(stops[k + 1].latitude - stops[k].latitude)
        IN  /\ stops[k].distanceToNext = <<d>>
            /\ stops[k].walkingTimeToNext # <<>>
            /\ stops[k].walkingTimeToNext[1] * UnitsPerKm >= d * MinutesPerKm(wizardSettings)
            /\ (stops[k].walkingTimeToNext[1] - 1) * UnitsPerKm < d * MinutesPerKm(wizardSettings)

---------------------------------------------------------------------------
(* Claims about saving, loading and restarting (specification SpecStore) *)

\* tour has the name, the stops and the totals that were to be kept
Keeps(tour, kept) ==
    /\ tour.name = kept.name
    /\ tour.sights = kept.sights
    /\ tour.totalDistance = kept.totalDistance
    /\ tour.estimatedDuration = kept.estimatedDuration

\* the positions of the saved tours of the given id
SavedAt(id) == {k \in 1..Len(savedTours) : savedTours[k].id = id}

\* C15: for every tour id saved and since then neither deleted nor saved again,
\* whatever else has happened, the collection holds under that id the name given
\* at the save (the tour's own name for an empty one) with the stops, totalDistance
\* and estimatedDuration of the tour that was current at the save, and loadTour of
\* that id makes exactly that the current tour.
C15_SaveLoadRoundTrip ==
    /\ [](\A id \in DOMAIN saveLog :
            /\ SavedAt(id) # {}
            /\ \A k \in SavedAt(id) : Keeps(savedTours[k], saveLog[id]))
    /\ [][\A id \in DOMAIN saveLog :
            loadTour(id) =>
                /\ currentTour' # <<>>
                /\ currentTour'[1].id = id
                /\ Keeps(currentTour'[1], saveLog[id])]_vars

\* a tour saved as "Trip" is current again by loadTour, while a second tour is
\* saved under its own name
C15_Witness ==
    /\ currentTour # <<>>
    /\ currentTour[1].name = "Trip"
    /\ currentTour[1].id \in DOMAIN saveLog
    /\ saveLog[currentTour[1].id].name = "Trip"
    /\ \E id \in DOMAIN saveLog :
          /\ id # currentTour[1].id
          /\ saveLog[id].name # "Trip"
          /\ saveLog[id].sights # currentTour[1].sights

\* C16: saveTour with a current tour replaces in place the one saved entry of the
\* current tour's id, or appends one entry when there is none; the other entries
\* keep content and position; the saved tours have pairwise distinct ids.
C16_ReplaceOrAppend ==
    /\ [][\A name \in SaveNames :
            (saveTour(name) /\ currentTour # <<>>) =>
                LET id == currentTour[1].id
                IN  IF SavedAt(id) # {}
                    THEN /\ Cardinality(SavedAt(id)) = 1
                         /\ Len(savedTours') = Len(savedTours)
                         /\ \A k \in 1..Len(savedTours) :
                               IF k \in SavedAt(id)
                               THEN /\ savedTours'[k].id = id
                                    /\ savedTours'[k].sights = currentTour[1].sights
                               ELSE savedTours'[k] = savedTours[k]
                    ELSE /\ Len(savedTours') = Len(savedTours) + 1
                         /\ \A k \in 1..Len(savedTours) : savedTours'[k] = savedTours[k]
                         /\ savedTours'[Len(savedTours')].id = id
                         /\ savedTours'[Len(savedTours')].sights = currentTour[1].sights]_vars
    /\ [](\A k, n \in 1..Len(savedTours) : k # n => savedTours[k].id # savedTours[n].id)

\* the first of two entries was replaced in place: it was saved after the restart
\* that brought the second one back
C16_Witness ==
    /\ Len(savedTours) = 2
    /\ savedTours[1].createdAt.type = "Date"
    /\ savedTours[2].createdAt.type = "string"

\* C17 as stated: a restart leaves savedTours and tourDistance as they were after
\* the last operation before it, with currentTour null and isGenerating false.
C17_RestartKeepsSaved ==
    [][Restart =>
          /\ savedTours' = savedTours
          /\ tourDistance' = tourDistance
          /\ currentTour' = <<>>
          /\ isGenerating' = FALSE]_vars

---------------------------------------------------------------------------
(* Claim about the input list of generateTour (specification SpecGen) *)

\* the k-th smallest element of a set of positions
Nth(positions, k) ==
    CHOOSE p \in positions : Cardinality({q \in positions : q <= p}) = k

\* C20: when some accepted sight is within the budget, the candidates handed to
\* the optimizer are the sights of the input, in input order, whose tier is
\* accepted (all tiers without wizard settings) and whose distance is defined and
\* at most maxDistance; no step of a call reorders or changes the input list.
C20_PrimaryFilterKeepsOrder ==
    /\ [](\A i \in Calls :
            (/\ calls[i].pc \in {"awaiting", "optimized", "finally", "resolved"}
             /\ NearIndices(calls[i]) # {}) =>
                /\ ~calls[i].expanded
                /\ Len(calls[i].nearSights) = Cardinality(NearIndices(calls[i]))
                /\ \A k \in 1..Len(calls[i].nearSights) :
                      calls[i].nearSights[k] = sights[Nth(NearIndices(calls[i]), k)])
    /\ [][sights' = sights]_vars

\* the tier filter and the radius filter both drop sights, and not only at the ends
C20_Witness ==
    \E i \in Calls :
        /\ calls[i].pc = "resolved"
        /\ ~calls[i].expanded
        /\ calls[i].wizardSettings # <<>>
        /\ Len(calls[i].nearSights) >= 2
        /\ \E k \in 1..Len(sights) :
              /\ k < Nth(NearIndices(calls[i]), 2)
              /\ k > Nth(NearIndices(calls[i]), 1)
        /\ \E k \in 1..Len(sights) :
              /\ TierAccepted(sights[k], calls[i].wizardSettings)
              /\ sights[k].distance # <<>>
              /\ sights[k].distance[1] > calls[i].maxDistance

---------------------------------------------------------------------------
(* The delegated route: matching the returned names (SpecGen) *)

\* the resolved invocations whose delegated call returned a completion
Delegated(i) ==
    /\ calls[i].pc = "optimized"
    /\ calls[i].usedAi
    /\ calls[i].response # <<>>
    /\ calls[i].response[1].kind = "ok"

ReturnedNames(i) == SightNames(calls[i].response[1].completion)

\* a name and a candidate name match when, both in lower case, one contains the other
FuzzyMatch(candidateName, name) ==
    LET a == toLowerCase(candidateName)
        b == toLowerCase(name)
    IN  \/ \E k \in 0..(Len(a) - Len(b)) : SubSeq(a, k + 1, k + Len(b)) = b
        \/ \E k \in 0..(Len(b) - Len(a)) : SubSeq(b, k + 1, k + Len(a)) = a

\* the position in the candidate list of the candidate a name stands for: the first
\* one whose name it fuzzily matches, 0 when there is none
MatchOf(cands, name) ==
    LET hits == {k \in 1..Len(cands) : FuzzyMatch(cands[k].name, name)}
    IN  IF hits = {} THEN 0 ELSE CHOOSE k \in hits : \A h \in hits : k <= h

\* the position of the first returned name that stands for candidate k, 0 when none
FirstNameOf(cands, names, k) ==
    LET js == {j \in 1..Len(names) : MatchOf(cands, names[j]) = k}
    IN  IF js = {} THEN 0 ELSE CHOOSE j \in js : \A h \in js : j <= h

\* C21: on a successful delegated response the matched route holds only candidates,
\* holds no sight id twice, holds exactly the candidates some returned name stands
\* for (a name stands for the first candidate, in list order, that it contains or is
\* contained in, ignoring case), and orders them by the position of the first
\* returned name that stands for them; a name that matches no candidate name adds
\* no stop.
C21_MatchedRoute ==
    \A i \in Calls : Delegated(i) =>
        LET cands == calls[i].nearSights
            names == ReturnedNames(i)
            matched == calls[i].matched
            At(k) == CHOOSE p \in 1..Len(cands) : cands[p] = matched[k]
        IN  /\ \A k \in 1..Len(matched) : \E p \in 1..Len(cands) : cands[p] = matched[k]
            /\ \A k, l \in 1..Len(matched) : k # l => matched[k].id # matched[l].id
            /\ {matched[k].id : k \in 1..Len(matched)} =
                  {cands[MatchOf(cands, names[j])].id :
                      j \in {h \in 1..Len(names) : MatchOf(cands, names[h]) # 0}}
            /\ \A k \in 1..Len(matched) : FirstNameOf(cands, names, At(k)) # 0
            /\ \A k, l \in 1..Len(matched) :
                  k < l => FirstNameOf(cands, names, At(k)) < FirstNameOf(cands, names, At(l))
            /\ Len(matched) <= Cardinality({j \in 1..Len(names) :
                                              MatchOf(cands, names[j]) # 0})

\* a response with a name that matches nothing, a repeated match, and two sights
\* matched in the order of the names, not of the candidate list
C21_Witness ==
    \E i \in Calls :
        /\ Delegated(i)
        /\ \E j \in 1..Len(ReturnedNames(i)) :
              MatchOf(calls[i].nearSights, ReturnedNames(i)[j]) = 0
        /\ Len(calls[i].matched) >= 2
        /\ Len(calls[i].matched) < Cardinality({j \in 1..Len(ReturnedNames(i)) :
                                 MatchOf(calls[i].nearSights, ReturnedNames(i)[j]) # 0})
        /\ \E p, q \in 1..Len(calls[i].nearSights) :
              /\ p > q
              /\ calls[i].nearSights[p] = calls[i].matched[1]
              /\ calls[i].nearSights[q] = calls[i].matched[2]

\* C22: on a successful delegated response with m matched stops, the route is the
\* matched stops alone when m >= 3; when m < 3 it is the matched stops followed by
\* min(5, number of unmatched candidates) unmatched candidates, none repeated, in
\* ascending order of distance from the user, none of them farther than an
\* unmatched candidate left out: at most 7 stops.
C22_TopUpBelowThree ==
    \A i \in Calls : Delegated(i) =>
        LET cands == calls[i].nearSights
            matched == calls[i].matched
            route == calls[i].route
            m == Len(matched)
            Unmatched(s) == \A k \in 1..m : matched[k].id # s.id
            rest == {p \in 1..Len(cands) : Unmatched(cands[p])}
            extra == Min(5, Cardinality(rest))
        IN  IF m >= 3 THEN route = matched
            ELSE /\ Len(route) = m + extra
                 /\ Len(route) <= 7
                 /\ SubSeq(route, 1, m) = matched
                 /\ \A k \in (m + 1)..Len(route) : \E p \in rest : cands[p] = route[k]
                 /\ \A k, l \in 1..Len(route) : k # l => route[k].id # route[l].id
                 /\ \A k, l \in (m + 1)..Len(route) :
                       k < l => DistanceOrZero(route[k]) <= DistanceOrZero(route[l])
                 /\ \A p \in rest :
                       (\A k \in (m + 1)..Len(route) : route[k].id # cands[p].id) =>
                           \A k \in (m + 1)..Len(route) :
                               DistanceOrZero(route[k]) <= DistanceOrZero(cands[p])

\* one matched stop, five added, and unmatched candidates left out
C22_Witness ==
    \E i \in Calls :
        /\ Delegated(i)
        /\ Len(calls[i].matched) = 1
        /\ Len(calls[i].route) = 6
        /\ Len(calls[i].nearSights) > 6
        /\ \E k \in 2..5 : DistanceOrZero(calls[i].route[k]) <
                            DistanceOrZero(calls[i].route[k + 1])

---------------------------------------------------------------------------
(* Rates and dwell times of an assembled tour (SpecGen) *)

\* the table of minutes per kilometre, and of minutes at a stop
RateOf(wizardSettings) ==
    IF wizardSettings = <<>> THEN 12
    ELSE LET mode == wizardSettings[1].transportMode
         IN  IF mode = "walk" THEN 12
             ELSE IF mode = "taxi" THEN 3
             ELSE IF mode = "public" THEN 6
             ELSE IF mode = "mix" THEN 8
             ELSE 0

DwellOf(wizardSettings) ==
    IF wizardSettings = <<>> THEN 15
    ELSE LET level == wizardSettings[1].detailLevelPerSight
         IN  IF level = "brief" THEN 5
             ELSE IF level = "medium" THEN 15
             ELSE IF level = "expert" THEN 25
             ELSE 0

\* C23: in the tour a call assembles, walkingTimeToNext of every non-final stop is
\* the least whole number of minutes not below distanceToNext (in km) times the
\* rate: 12 for walk, 3 for taxi, 6 for public, 8 for mix, 12 without wizard
\* settings; and estimatedDuration is the sum of the walking times plus, per stop,
\* 5 minutes for brief, 15 for medium, 25 for expert, 15 without wizard settings.
C23_RatesAndDwell ==
    \A i \in Calls :
        (calls[i].pc \in {"finally", "resolved"} /\ calls[i].error = "none") =>
            LET tour == currentTour[1]
                stops == tour.sights
                rate == RateOf(calls[i].wizardSettings)
                dwell == DwellOf(calls[i].wizardSettings)
                minutes == [k \in 1..Len(stops) |-> stops[k].walkingTimeToNext[1]]
            IN  /\ \A k \in 1..(Len(stops) - 1) :
                      LET units == stops[k].distanceToNext[1]
                      IN  /\ minutes[k] * UnitsPerKm >= units * rate
                          /\ (minutes[k] - 1) * UnitsPerKm < units * rate
                /\ tour.estimatedDuration =
                      SumTo(minutes, Len(stops) - 1) + Len(stops) * dwell

\* a tour by public transport at the expert level with a leg that takes time
C23_Witness ==
    \E i \in Calls :
        /\ calls[i].pc = "resolved"
        /\ calls[i].error = "none"
        /\ calls[i].wizardSettings # <<>>
        /\ calls[i].wizardSettings[1].transportMode = "public"
        /\ calls[i].wizardSettings[1].detailLevelPerSight = "expert"
        /\ Len(currentTour[1].sights) >= 3
        /\ currentTour[1].sights[1].walkingTimeToNext[1] =
              3 * currentTour[1].sights[1].distanceToNext[1]
        /\ currentTour[1].sights[1].distanceToNext[1] > 0

---------------------------------------------------------------------------
(* When generateTour succeeds (SpecGen) *)

\* C27: a call of generateTour ends without error, having published a tour of at
\* least one stop, exactly when some available sight has an accepted tier and a
\* defined distance of at most 1.5 times maxDistance; with candidates the optimizer,
\* heuristic or delegated, returns a route that is not empty, and the error for an
\* empty route is never raised.
C27_SucceedsIffCandidate ==
    \A i \in Calls :
        /\ calls[i].pc \in {"finally", "resolved", "rejected"} =>
              /\ (calls[i].error = "none") <=> (CandidateIndices(calls[i]) # {})
              /\ calls[i].error = "none" =>
                    /\ currentTour # <<>>
                    /\ Len(currentTour[1].sights) >= 1
                    /\ currentTour[1].sights = TourStops(calls[i].route, calls[i].wizardSettings)
        /\ calls[i].pc \in {"awaiting", "optimized"} => CandidateIndices(calls[i]) # {}
        /\ calls[i].pc = "optimized" => calls[i].route # <<>>
        /\ calls[i].error # "CouldNotCreate"

\* success by the wider radius alone: nothing within maxDistance, one sight at
\* exactly 1.5 times maxDistance, others beyond it, and a tour of that one sight
C27_Witness ==
    \E i \in Calls :
        /\ calls[i].pc = "resolved"
        /\ calls[i].error = "none"
        /\ calls[i].expanded
        /\ calls[i].maxDistance > 0
        /\ \A k \in 1..Len(sights) : sights[k].distance # <<>> =>
              2 * sights[k].distance[1] >= 3 * calls[i].maxDistance
        /\ \E k \in 1..Len(sights) : sights[k].distance # <<>> /\
              2 * sights[k].distance[1] > 3 * calls[i].maxDistance
        /\ Len(currentTour[1].sights) = 1
        /\ 2 * currentTour[1].sights[1].distance[1] = 3 * calls[i].maxDistance

---------------------------------------------------------------------------
(* What changes the saved tours (Spec) *)

\* the collection after saving the current tour under name: the entry with its id
\* replaced in place, or the tour appended
AfterSave(name) ==
    LET tour == [currentTour[1] EXCEPT
                    !.name = IF name = "" THEN currentTour[1].name ELSE name]
        held == \E k \in 1..Len(savedTours) : savedTours[k].id = tour.id
    IN  IF held
        THEN [k \in 1..Len(savedTours) |->
                 IF savedTours[k].id = tour.id THEN tour ELSE savedTours[k]]
        ELSE savedTours \o <<tour>>

\* the collection after deleting id: the other entries, in order
AfterDelete(id) == SelectSeq(savedTours, LAMBDA t : t.id # id)

\* C28: a step that changes savedTours is one saveTour or one deleteTour, and it
\* takes the collection in that one step from the old value to the complete new
\* one, also while calls of generateTour are in flight; every step of generateTour
\* (successful or failing), and every step that sets currentTour (loadTour,
\* clearTour) or tourDistance (setTourDistance), leaves savedTours as it was.
C28_OnlySaveAndDelete ==
    [][/\ savedTours' # savedTours =>
             /\ \/ /\ currentTour # <<>>
                   /\ \E name \in SaveNames : savedTours' = AfterSave(name)
                \/ \E id \in TourIds : savedTours' = AfterDelete(id)
             /\ calls' = calls
             /\ currentTour' = currentTour
             /\ tourDistance' = tourDistance
             /\ isGenerating' = isGenerating
       /\ calls' # calls => savedTours' = savedTours
       /\ isGenerating' # isGenerating => savedTours' = savedTours
       /\ currentTour' # currentTour => savedTours' = savedTours
       /\ tourDistance' # tourDistance => savedTours' = savedTours]_vars

\* two tours saved, the current tour cleared and the distance set, while a call
\* of generateTour awaits the endpoint
C28_Witness ==
    /\ Len(savedTours) = 2
    /\ currentTour = <<>>
    /\ tourDistance # DefaultTourDistance
    /\ \E i \in Calls : calls[i].pc = "awaiting"

---------------------------------------------------------------------------
(* Deleting, and the operations that find nothing to do (SpecStore) *)

\* what the store would hold after a restart from the given persisted item
Rehydrated(item) ==
    IF item = <<>>
    THEN [savedTours |-> <<>>, tourDistance |-> DefaultTourDistance]
    ELSE item[1]

\* a step that leaves the fields of the store, the invocations in flight, and what
\* a restart would bring back, as they were
NothingChanges ==
    /\ currentTour' = currentTour
    /\ savedTours' = savedTours
    /\ isGenerating' = isGenerating
    /\ tourDistance' = tourDistance
    /\ calls' = calls
    /\ Rehydrated(storage') = Rehydrated(storage)

\* C29: deleteTour(id) leaves in savedTours exactly the entries whose id is not id,
\* in their order, and leaves currentTour as it is, also when the current tour has
\* that id; deleteTour and loadTour of an id that no saved tour has, and saveTour
\* without a current tour, change nothing.
C29_DeleteAndNoOps ==
    [][/\ \A id \in TourIds :
             /\ deleteTour(id) =>
                   LET kept == {k \in 1..Len(savedTours) : savedTours[k].id # id}
                   IN  /\ Len(savedTours') = Cardinality(kept)
                       /\ \A j \in 1..Len(savedTours') :
                             savedTours'[j] = savedTours[Nth(kept, j)]
                       /\ currentTour' = currentTour
                       /\ isGenerating' = isGenerating
                       /\ tourDistance' = tourDistance
                       /\ calls' = calls
                       /\ kept = 1..Len(savedTours) => NothingChanges
             /\ ((\A k \in 1..Len(savedTours) : savedTours[k].id # id) /\ loadTour(id))
                   => NothingChanges
       /\ \A name \in SaveNames : (currentTour = <<>> /\ saveTour(name)) => NothingChanges]_vars

\* the current tour was loaded from its saved entry, the entry was deleted while
\* another saved tour stayed, and the current tour is still there
C29_Witness ==
    /\ currentTour # <<>>
    /\ currentTour[1].name = "Trip"
    /\ SavedAt(currentTour[1].id) = {}
    /\ Len(savedTours) = 1
    /\ currentTour[1].id = "0"
    /\ savedTours[1].id = "1"

---------------------------------------------------------------------------
(* Specification SpecRegion: the sights store's map region filter.  Sights  *)
(* lie on a grid of whole coordinates; a region is its centre and its two   *)
(* spans, and centre -/+ span / 2 is compared after doubling both sides.    *)

RegionSight(id, latitude, longitude, tier) ==
    [id |-> id, latitude |-> latitude, longitude |-> longitude, tier |-> tier]

\* allSights as a fetch left it
RegionCatalogue ==
    << RegionSight(1,  0,  0, 1),
       RegionSight(2,  1,  0, 2),
       RegionSight(3, -1,  1, 3),
       RegionSight(4,  2, -1, 1),
       RegionSight(5,  0,  2, 2),
       RegionSight(6,  1,  1, 1),
       RegionSight(7, -2,  0, 3) >>

Region(latitude, longitude, latitudeDelta, longitudeDelta) ==
    [latitude |-> latitude, longitude |-> longitude,
     latitudeDelta |-> latitudeDelta, longitudeDelta |-> longitudeDelta]

Regions ==
    {Region(lat, lon, latDelta, lonDelta) :
        lat \in {0, 1}, lon \in {0, 1}, latDelta \in {0, 1, 2}, lonDelta \in {1, 2, 4}}

Tiers == {1, 2, 3}

\* selectedTiers.includes(tier)
IncludesTier(selectedTiers, tier) ==
    \E k \in 1..Len(selectedTiers) : selectedTiers[k] = tier

\* [...currentTiers, tier].sort()
RECURSIVE InsertTier(_, _)
InsertTier(sorted, tier) ==
    IF sorted = <<>> THEN <<tier>>
    ELSE IF tier < Head(sorted) THEN <<tier>> \o sorted
    ELSE <<Head(sorted)>> \o InsertTier(Tail(sorted), tier)

\* (mutant) a box without its border
InBoxWithoutBorder(s, region) ==
    /\ 2 * s.latitude > 2 * region.latitude - region.latitudeDelta
    /\ 2 * s.latitude < 2 * region.latitude + region.latitudeDelta
    /\ 2 * s.longitude > 2 * region.longitude - region.longitudeDelta
    /\ 2 * s.longitude < 2 * region.longitude + region.longitudeDelta

\* s.latitude >= latMin && s.latitude <= latMax && s.longitude >= lonMin &&
\* s.longitude <= lonMax
InBox(s, region) ==
    /\ 2 * s.latitude >= 2 * region.latitude - region.latitudeDelta
    /\ 2 * s.latitude <= 2 * region.latitude + region.latitudeDelta
    /\ 2 * s.longitude >= 2 * region.longitude - region.longitudeDelta
    /\ 2 * s.longitude <= 2 * region.longitude + region.longitudeDelta

\* the list filterByMapRegion shows
RegionFiltered(allSights, selectedTiers, region) ==
    LET box == SelectSeq(allSights, LAMBDA s : InBox(s, region))
    IN  SelectSeq(box, LAMBDA s : IncludesTier(selectedTiers, s.tier))

regionFrame == <<openAiApiKey, currentTour, savedTours, isGenerating, tourDistance, now,
                 calls, completedSince, opt, storage, saveLog, tierRun, screen, tts>>

\* filterByMapRegion
filterByMapRegion(region) ==
    /\ sightsStore' = [sightsStore EXCEPT !.lastRegion = <<region>>]
    /\ sights' = RegionFiltered(sightsStore.allSights, sightsStore.selectedTiers, region)
    /\ UNCHANGED regionFrame

\* filterSightsByTiers
filterSightsByTiers ==
    /\ IF sightsStore.lastRegion = <<>>
       THEN sights' = SelectSeq(sightsStore.allSights,
                                LAMBDA s : IncludesTier(sightsStore.selectedTiers, s.tier))
       ELSE sights' = RegionFiltered(sightsStore.allSights, sightsStore.selectedTiers,
                                     sightsStore.lastRegion[1])
    /\ UNCHANGED sightsStore
    /\ UNCHANGED regionFrame

\* setLastRegion
setLastRegion(region) ==
    /\ sightsStore' = [sightsStore EXCEPT !.lastRegion = <<region>>]
    /\ UNCHANGED sights
    /\ UNCHANGED regionFrame

\* settings store: toggleTier
toggleTier(tier) ==
    /\ sightsStore' =
          [sightsStore EXCEPT !.selectedTiers =
              IF IncludesTier(sightsStore.selectedTiers, tier)
              THEN SelectSeq(sightsStore.selectedTiers, LAMBDA t : t # tier)
              ELSE InsertTier(sightsStore.selectedTiers, tier)]
    /\ UNCHANGED sights
    /\ UNCHANGED regionFrame

\* the stores after a fetch, before the map has reported a region
InitRegion ==
    /\ sights = RegionCatalogue
    /\ openAiApiKey = ""
    /\ StoreConstructed
    /\ opt = OptIdle
    /\ tierRun = TierIdle
    /\ screen = ScreenIdle
    /\ tts = TtsIdle
    /\ sightsStore = [SightsStoreConstructed EXCEPT !.allSights = RegionCatalogue]

NextRegion ==
    \/ \E region \in Regions : filterByMapRegion(region)
    \/ filterSightsByTiers
    \/ \E region \in Regions : setLastRegion(region)
    \/ \E tier \in Tiers : toggleTier(tier)

SpecRegion == InitRegion /\ [][NextRegion]_vars

\* the positions of allSights inside the region's box, borders included, whose
\* tier is selected
ShownPositions(region) ==
    {p \in 1..Len(sightsStore.allSights) :
        LET s == sightsStore.allSights[p]
        IN  /\ 2 * region.latitude - region.latitudeDelta <= 2 * s.latitude
            /\ 2 * s.latitude <= 2 * region.latitude + region.latitudeDelta
            /\ 2 * region.longitude - region.longitudeDelta <= 2 * s.longitude
            /\ 2 * s.longitude <= 2 * region.longitude + region.longitudeDelta
            /\ s.tier \in {sightsStore.selectedTiers[k] :
                              k \in 1..Len(sightsStore.selectedTiers)}}

\* C25: filterByMapRegion(region) makes sights the sights of allSights, in the order
\* of allSights, whose latitude is within latitude -/+ latitudeDelta / 2 and whose
\* longitude is within longitude -/+ longitudeDelta / 2, bounds included, and whose
\* tier is among the selected tiers; allSights and the selected tiers stay as they
\* are, and lastRegion becomes region.
C25_RegionFilter ==
    [][\A region \in Regions : filterByMapRegion(region) =>
          LET shown == ShownPositions(region)
          IN  /\ Len(sights') = Cardinality(shown)
              /\ \A j \in 1..Len(sights') :
                    sights'[j] = sightsStore.allSights[Nth(shown, j)]
              /\ sightsStore'.allSights = sightsStore.allSights
              /\ sightsStore'.selectedTiers = sightsStore.selectedTiers
              /\ sightsStore'.lastRegion = <<region>>]_vars

\* a filtered list of two sights or more with one on the border of the box, while a
\* sight inside the box is left out for its tier and another for its place
C25_Witness ==
    /\ sightsStore.lastRegion # <<>>
    /\ LET region == sightsStore.lastRegion[1]
           shown == ShownPositions(region)
       IN  /\ Len(sights) >= 2
           /\ Len(sights) = Cardinality(shown)
           /\ \A j \in 1..Len(sights) : sights[j] = sightsStore.allSights[Nth(shown, j)]
           /\ \E j \in 1..Len(sights) :
                 \/ 2 * sights[j].latitude = 2 * region.latitude + region.latitudeDelta
                 \/ 2 * sights[j].longitude = 2 * region.longitude - region.longitudeDelta
           /\ \E p \in 1..Len(sightsStore.allSights) :
                 /\ p \notin shown
                 /\ sightsStore.allSights[p].latitude = region.latitude
                 /\ sightsStore.allSights[p].longitude = region.longitude
           /\ \E p \in 1..Len(sightsStore.allSights) :
                 /\ p \notin shown
                 /\ IncludesTier(sightsStore.selectedTiers, sightsStore.allSights[p].tier)

---------------------------------------------------------------------------
(* Specification SpecScreen: generateTour as the tour planner screen starts *)
(* it.  The screen holds the store values of its last render; the store     *)
(* notifies it on every set, and it renders again in a later step.  When     *)
(* that step is taken relative to the next press is decided by the UI        *)
(* framework, not by this repository: the model leaves it open.             *)

\* what a render of the screen takes from the store
Rendered == [isGenerating |-> isGenerating, showsTour |-> currentTour # <<>>]

\* the screen renders again with the present values of the store
Render ==
    /\ AllQuiet
    /\ screen # Rendered
    /\ screen' = Rendered
    /\ UNCHANGED <<storeVars, sights, opt, tierRun, sightsStore, tts>>

\* the settings of the screen: its defaults, and a choice made in the advanced panel
ScreenWizardChoices ==
    { <<WizardSettings(1, "walk", <<1, 2>>, "medium")>>,
      <<WizardSettings(2, "taxi", <<1>>, "brief")>> }

\* a press of the generate control, as rendered: handleGenerateTour.  The control is
\* there when the last render had no current tour, and takes presses when the
\* last render had isGenerating false; the handler returns early without a user
\* location, without sights, or with a distance that is no positive number, and
\* otherwise calls generateTour with the screen's settings.
PressGenerate(i, userLocation, maxDistance, wizardSettings) ==
    /\ ~screen.showsTour
    /\ ~screen.isGenerating
    /\ sights # <<>>
    /\ maxDistance > 0
    /\ Begin(i, userLocation, maxDistance, wizardSettings)

\* a press of the clear control of the tour view: clearTour
PressClear ==
    /\ screen.showsTour
    /\ clearTour

InitScreen ==
    /\ sights \in StoreScenarios
    /\ openAiApiKey = "sk-key"
    /\ StoreConstructed
    /\ opt = OptIdle
    /\ tierRun = TierIdle
    /\ OthersIdle

NextScreen ==
    \/ \E i \in Calls :
          \/ \E userLocation \in Locations, maxDistance \in StoreBudgets,
                wizardSettings \in ScreenWizardChoices :
                PressGenerate(i, userLocation, maxDistance, wizardSettings)
          \/ FilterAndOptimize(i)
          \/ \E response \in StoreResponses : Respond(i, response)
          \/ Conclude(i)
          \/ Finally(i)
          \/ Observe(i)
    \/ Render
    \/ PressClear
    \/ Tick

SpecScreen == InitScreen /\ [][NextScreen]_vars

\* the invocations that have begun and not yet cleared the flag and settled
Outstanding == {i \in Calls : InFlight(i)}

\* C24 as stated: whatever the presses, also two presses of which the second comes
\* before the screen has rendered again, at most one invocation of generateTour
\* started from the screen is outstanding.
C24_OneInvocationOutstanding ==
    Cardinality(Outstanding) <= 1

---------------------------------------------------------------------------
(* Specification SpecTts: utils/tts with a key configured.  Calls of        *)
(* speakNatural and stopNatural run on one thread and give way to each      *)
(* other at every await; tts.speak[i] and tts.stop are the await each call   *)
(* stands at.  A sound is created playing; stopAsync and unloadAsync end its *)
(* playing.  The fallback to the system voice creates no sound.             *)

ttsFrame == <<storeVars, opt, tierRun, screen, sightsStore>>

\* speakNatural is called with a text that is not blank, and awaits setAudioModeAsync
SpeakCall(i) ==
    /\ tts.speak[i] = "idle"
    /\ \A j \in Speakers : j < i => tts.speak[j] # "idle"
    /\ tts' = [tts EXCEPT !.speak[i] = "mode"]
    /\ UNCHANGED ttsFrame

\* if (currentSound) { await currentSound.stopAsync(); ... }, else on to the fetch
SpeakStopPrevious(i) ==
    /\ tts.speak[i] = "mode"
    /\ IF tts.currentSound # 0
       THEN tts' = [tts EXCEPT !.playing = tts.playing \ {tts.currentSound},
                               !.speak[i] = "stopping"]
       ELSE tts' = [tts EXCEPT !.speak[i] = "fetching"]
    /\ UNCHANGED ttsFrame

\* await currentSound.unloadAsync(): currentSound is read again; when it has become
\* null the call throws into the empty catch, currentSound = null, on to the fetch
SpeakUnloadPrevious(i) ==
    /\ tts.speak[i] = "stopping"
    /\ IF tts.currentSound # 0
       THEN tts' = [tts EXCEPT !.playing = tts.playing \ {tts.currentSound},
                               !.speak[i] = "unloading"]
       ELSE tts' = [tts EXCEPT !.speak[i] = "fetching"]
    /\ UNCHANGED ttsFrame

\* currentSound = null after the unload, then the fetch is sent
SpeakForgetPrevious(i) ==
    /\ tts.speak[i] = "unloading"
    /\ tts' = [tts EXCEPT !.currentSound = 0, !.speak[i] = "fetching"]
    /\ UNCHANGED ttsFrame

\* the download arrived and was written: createAsync with shouldPlay, and
\* currentSound = sound
SpeakCreate(i) ==
    /\ tts.speak[i] = "fetching"
    /\ tts.created < MaxSounds
    /\ LET sound == tts.created + 1
       IN  tts' = [tts EXCEPT !.created = sound,
                              !.playing = tts.playing \cup {sound},
                              !.currentSound = sound,
                              !.speak[i] = "idle"]
    /\ UNCHANGED ttsFrame

\* the fetch, the write or createAsync failed: the system voice speaks instead
SpeakFallsBack(i) ==
    /\ tts.speak[i] = "fetching"
    /\ tts' = [tts EXCEPT !.speak[i] = "idle"]
    /\ UNCHANGED ttsFrame

\* a sound played to its end: the status callback unloads it and clears
\* currentSound if it still is that sound
SoundFinishes(sound) ==
    /\ sound \in tts.playing
    /\ tts' = [tts EXCEPT !.playing = tts.playing \ {sound},
                          !.currentSound = IF tts.currentSound = sound THEN 0
                                           ELSE tts.currentSound]
    /\ UNCHANGED ttsFrame

\* stopNatural is called: if (currentSound) { await currentSound.stopAsync(); ... },
\* else the system voice is stopped
StopCall ==
    /\ tts.stop = "idle"
    /\ IF tts.currentSound # 0
       THEN tts' = [tts EXCEPT !.playing = tts.playing \ {tts.currentSound},
                               !.stop = "stopping"]
       ELSE tts' = tts
    /\ UNCHANGED ttsFrame

\* await currentSound.unloadAsync(), on the value currentSound has by now
StopUnload ==
    /\ tts.stop = "stopping"
    /\ IF tts.currentSound # 0
       THEN tts' = [tts EXCEPT !.playing = tts.playing \ {tts.currentSound},
                               !.stop = "unloading"]
       ELSE tts' = [tts EXCEPT !.stop = "idle"]
    /\ UNCHANGED ttsFrame

\* currentSound = null
StopForget ==
    /\ tts.stop = "unloading"
    /\ tts' = [tts EXCEPT !.currentSound = 0, !.stop = "idle"]
    /\ UNCHANGED ttsFrame

InitTts ==
    /\ sights = <<>>
    /\ openAiApiKey = "sk-key"
    /\ StoreConstructed
    /\ opt = OptIdle
    /\ tierRun = TierIdle
    /\ OthersIdle

NextTts ==
    \/ \E i \in Speakers :
          \/ SpeakCall(i)
          \/ SpeakStopPrevious(i)
          \/ SpeakUnloadPrevious(i)
          \/ SpeakForgetPrevious(i)
          \/ SpeakCreate(i)
          \/ SpeakFallsBack(i)
    \/ \E sound \in 1..MaxSounds : SoundFinishes(sound)
    \/ StopCall
    \/ StopUnload
    \/ StopForget

SpecTts == InitTts /\ [][NextTts]_vars

\* C30 as stated: however calls of speakNatural and stopNatural interleave, also
\* with a second speakNatural begun while the first awaits its download, no sound
\* plays but the one currentSound refers to (so stopNatural, which stops that one,
\* leaves nothing playing).
C30_OnlyCurrentSoundPlays ==
    \A sound \in tts.playing : sound = tts.currentSound

===========================================================================
